---- MODULE Spec2Model ----
(***************************************************************************)
(* postshortly: signed status updates over HTTP.                           *)
(*                                                                         *)
(* The model follows the current sources: api.go (handlers and             *)
(* validateStatusUpdate), database.go (the SQLite tables and statements),  *)
(* stats.go (getStatistics, printLiveStats, getTopProlificPubkeys) and the *)
(* main package file that declares the limiter and the request counters.   *)
(*                                                                         *)
(* Strings are sequences of byte values, as Go strings are.  One unit of   *)
(* the clock is StatsRefreshInterval (500 ms).                             *)
(***************************************************************************)
EXTENDS Integers, Sequences, FiniteSets, TLC

(***************************************************************************)
(* Bounds of the model                                                     *)
(***************************************************************************)
\* number of ingestion requests served during one run
NumReqs == 2
\* last instant of the clock, in units of StatsRefreshInterval
MaxTime == 2
\* number of requests a client sends one after another
MaxServed == 3
\* number of read requests served during one run
MaxReads == 1
\* the wall clock when the service starts, in units of StatsRefreshInterval
\* since the Unix epoch
ClockStart == 100

\* most keys of a map whose every iteration order is enumerated
MaxShuffled == 3
\* most distinct keys among the updates a top-prolific list is computed from
MaxKeys == 11
\* how many times the list is computed from the same updates
MaxRecomputations == 2

(***************************************************************************)
(* Program constants                                                       *)
(***************************************************************************)
BodyMaxSize == 256
LinkMaxSize == 256
\* ed25519.PublicKeySize
PubkeyMaxSize == 32
\* ed25519.SignatureSize
SignatureMaxSize == 64
\* rate.NewLimiter(1, 1): one token per second, burst of one token
LimiterRate == 1
LimiterBurst == 1
\* clock units per second: StatsRefreshInterval = 500 * time.Millisecond
UnitsPerSecond == 2
\* getTopProlificPubkeys keeps the entries at index 0..9
TopLimit == 10

(***************************************************************************)
(* Bytes and strings                                                       *)
(***************************************************************************)
\* ASCII codes of the characters the inputs are made of
Ord ==
  [c \in {"0", "A", "a", "b", "g", "x", "m", "p", "l", "t", "&", ";", "<", ">"} |->
     CASE c = "0" -> 48 [] c = "A" -> 65 [] c = "a" -> 97 [] c = "b" -> 98
       [] c = "g" -> 103 [] c = "x" -> 120 [] c = "m" -> 109 [] c = "p" -> 112
       [] c = "l" -> 108 [] c = "t" -> 116 [] c = "&" -> 38 [] c = ";" -> 59
       [] c = "<" -> 60 [] c = ">" -> 62]

\* n copies of byte b
Rep(b, n) == [i \in 1..n |-> b]

\* n copies of the string s
RepSeq(s, n) == [i \in 1..(n * Len(s)) |-> s[((i - 1) % Len(s)) + 1]]

SetMin(S) == CHOOSE x \in S : \A y \in S : x <= y

IsLetter(b) == (b >= 65 /\ b <= 90) \/ (b >= 97 /\ b <= 122)

(***************************************************************************)
(* encoding/hex                                                            *)
(***************************************************************************)
IsHexChar(b) ==
  \/ b >= 48 /\ b <= 57
  \/ b >= 97 /\ b <= 102
  \/ b >= 65 /\ b <= 70

\* fromHexChar: both cases of the letters a-f decode to the same value
fromHexChar(b) ==
  IF b >= 48 /\ b <= 57 THEN b - 48
  ELSE IF b >= 97 /\ b <= 102 THEN b - 97 + 10
  ELSE b - 65 + 10

\* hex.DecodeString returns an error for an odd length or a non-hex byte
HexDecodeOk(s) == Len(s) % 2 = 0 /\ \A i \in 1..Len(s) : IsHexChar(s[i])

HexDecode(s) ==
  [i \in 1..(Len(s) \div 2) |-> 16 * fromHexChar(s[2 * i - 1]) + fromHexChar(s[2 * i])]

HexDigit(v) == IF v < 10 THEN 48 + v ELSE 97 + (v - 10)

\* hex.EncodeToString: lowercase digits
HexEncode(bs) ==
  [i \in 1..(2 * Len(bs)) |->
     IF i % 2 = 1 THEN HexDigit(bs[(i + 1) \div 2] \div 16)
     ELSE HexDigit(bs[i \div 2] % 16)]

(***************************************************************************)
(* bluemonday.UGCPolicy().Sanitize, on text made of plain bytes, "&", "<", *)
(* ">" and tags of elements outside the allow-list: such a tag is removed  *)
(* and its content kept, and the text is written back escaped.             *)
(***************************************************************************)
AmpEsc == <<Ord["&"], Ord["a"], Ord["m"], Ord["p"], Ord[";"]>>
LtEsc == <<Ord["&"], Ord["l"], Ord["t"], Ord[";"]>>
GtEsc == <<Ord["&"], Ord["g"], Ord["t"], Ord[";"]>>

IsSpecial(b) == b \in {Ord["&"], Ord["<"], Ord[">"]}

RECURSIVE SanitizeFrom(_, _)
SanitizeFrom(s, i) ==
  IF i > Len(s) THEN <<>>
  ELSE
    LET specials == {k \in i..Len(s) : IsSpecial(s[k])} IN
    IF specials = {} THEN SubSeq(s, i, Len(s))
    ELSE
      LET k == SetMin(specials)
          closes == {j \in (k + 1)..Len(s) : s[j] = Ord[">"]}
      IN  SubSeq(s, i, k - 1) \o
            ( IF s[k] = Ord["&"] THEN AmpEsc \o SanitizeFrom(s, k + 1)
              ELSE IF s[k] = Ord[">"] THEN GtEsc \o SanitizeFrom(s, k + 1)
              ELSE IF k < Len(s) /\ IsLetter(s[k + 1])
                THEN \* a start tag: dropped up to its ">" (to the end when unclosed)
                     IF closes = {} THEN <<>>
                     ELSE SanitizeFrom(s, SetMin(closes) + 1)
              ELSE LtEsc \o SanitizeFrom(s, k + 1) )

Sanitize(s) == SanitizeFrom(s, 1)

(***************************************************************************)
(* crypto/ed25519, idealised: the signature of a message under a key is a  *)
(* deterministic 64-byte digest of the key and the message, and Verify     *)
(* accepts exactly that signature.                                         *)
(***************************************************************************)
RECURSIVE WeightedSum(_, _, _)
WeightedSum(m, lo, hi) ==
  IF lo > hi THEN 0
  ELSE IF lo = hi THEN lo * m[lo]
  ELSE LET mid == (lo + hi) \div 2
       IN  WeightedSum(m, lo, mid) + WeightedSum(m, mid + 1, hi)

RECURSIVE PlainSum(_, _, _)
PlainSum(m, lo, hi) ==
  IF lo > hi THEN 0
  ELSE IF lo = hi THEN m[lo]
  ELSE LET mid == (lo + hi) \div 2
       IN  PlainSum(m, lo, mid) + PlainSum(m, mid + 1, hi)

\* ed25519.Sign(privateKeyOf(pub), msg)
Ed25519Sign(pub, msg) ==
  LET w == WeightedSum(msg, 1, Len(msg))
      p == PlainSum(msg, 1, Len(msg))
      k == PlainSum(pub, 1, Len(pub))
  IN  [i \in 1..SignatureMaxSize |->
         CASE i = 1 -> k % 256
           [] i = 2 -> Len(msg) % 256
           [] i = 3 -> (Len(msg) \div 256) % 256
           [] i = 4 -> w % 256
           [] i = 5 -> (w \div 256) % 256
           [] i = 6 -> (w \div 65536) % 256
           [] i = 7 -> p % 256
           [] i = 8 -> (p \div 256) % 256
           [] OTHER -> 0]

\* ed25519.Verify(publicKey, message, sig)
Ed25519Verify(pub, msg, sig) == sig = Ed25519Sign(pub, msg)

(***************************************************************************)
(* validateStatusUpdate (api.go)                                           *)
(***************************************************************************)
ErrBodyEmpty == "body cannot be empty"
ErrBodySize == "body exceeds maximum size of 256 characters"
ErrLinkSize == "link exceeds maximum size of 256 characters"
ErrPubkeyLen == "invalid pubkey length"
ErrSigLen == "invalid signature length"
ErrPubkeyFormat == "invalid pubkey format"
\* mutant: a signature that is not hex is reported as an authorization failure
ErrSigFormatAsUnauthorized == "unauthorized: signature verification failed"

ErrSigFormat == "invalid signature format"
ErrUnauthorized == "unauthorized: signature verification failed"
NoError == "nil"

\* mutant: the link is left out of the signed message
dataToVerifyNoLink(pubkey, body, link) == pubkey \o body

\* mutant: the link is signed before the body
dataToVerifyLinkFirst(pubkey, body, link) == pubkey \o link \o body

\* dataToVerify := append(append(pubkey, []byte(update.Body)...), []byte(update.Link)...)
dataToVerify(pubkey, body, link) == pubkey \o body \o link

\* mutant: a body of exactly BodyMaxSize bytes is refused
ExceedsBodyOffByOne(body) == Len(body) >= BodyMaxSize

ExceedsBody(body) == Len(body) > BodyMaxSize

ExceedsLink(link) == link # <<>> /\ Len(link) > LinkMaxSize

\* mutant: the lengths of pubkey and signature are checked before body and link
validateStatusUpdateReordered(u) ==
  LET body == Sanitize(u.Body)
      link == Sanitize(u.Link)
  IN  IF Len(u.Pubkey) # PubkeyMaxSize * 2 THEN ErrPubkeyLen
      ELSE IF Len(u.Signature) # SignatureMaxSize * 2 THEN ErrSigLen
      ELSE IF body = <<>> THEN ErrBodyEmpty
      ELSE IF ExceedsBody(body) THEN ErrBodySize
      ELSE IF ExceedsLink(link) THEN ErrLinkSize
      ELSE IF ~HexDecodeOk(u.Pubkey) THEN ErrPubkeyFormat
      ELSE IF ~HexDecodeOk(u.Signature) THEN ErrSigFormat
      ELSE IF ~Ed25519Verify(HexDecode(u.Pubkey),
                             dataToVerify(HexDecode(u.Pubkey), body, link),
                             HexDecode(u.Signature))
        THEN ErrUnauthorized
      ELSE NoError

validateStatusUpdate(u) ==
  LET body == Sanitize(u.Body)
      link == Sanitize(u.Link)
  IN  IF body = <<>> THEN ErrBodyEmpty
      ELSE IF ExceedsBody(body) THEN ErrBodySize
      ELSE IF ExceedsLink(link) THEN ErrLinkSize
      ELSE IF Len(u.Pubkey) # PubkeyMaxSize * 2 THEN ErrPubkeyLen
      ELSE IF Len(u.Signature) # SignatureMaxSize * 2 THEN ErrSigLen
      ELSE IF ~HexDecodeOk(u.Pubkey) THEN ErrPubkeyFormat
      ELSE IF ~HexDecodeOk(u.Signature) THEN ErrSigFormat
      ELSE IF ~Ed25519Verify(HexDecode(u.Pubkey),
                             dataToVerify(HexDecode(u.Pubkey), body, link),
                             HexDecode(u.Signature))
        THEN ErrUnauthorized
      ELSE NoError

(***************************************************************************)
(* Inputs                                                                  *)
(***************************************************************************)

KeyA == Rep(10, PubkeyMaxSize)
KeyB == Rep(11, PubkeyMaxSize)

ToUpper(s) == [i \in 1..Len(s) |-> IF s[i] >= 97 /\ s[i] <= 102 THEN s[i] - 32 ELSE s[i]]

TagX == <<Ord["<"], Ord["x"], Ord[">"]>>

\* the JSON object of a request, decoded into a StatusUpdate
Candidate(id, ts, body, link, pubkey, signature) ==
  [ID |-> id, Timestamp |-> ts, Body |-> body, Link |-> link,
   Pubkey |-> pubkey, Signature |-> signature]

\* what a client holding the key signs: pubkey || body || link
ClientSignature(key, body, link) == HexEncode(Ed25519Sign(key, key \o body \o link))

Bodies ==
  { <<>>, TagX, <<Ord["a"]>>, <<Ord["a"], Ord["b"]>>, <<Ord["a"], Ord["&"], Ord["b"]>>,
    Rep(Ord["a"], BodyMaxSize), Rep(Ord["a"], BodyMaxSize + 1),
    Rep(Ord["a"], BodyMaxSize - 5) \o <<Ord["&"]>>,
    Rep(Ord["a"], BodyMaxSize - 4) \o <<Ord["&"]>>,
    Rep(Ord["a"], BodyMaxSize) \o TagX }

Links ==
  { <<>>, TagX, <<Ord["b"]>>, Rep(Ord["b"], LinkMaxSize), Rep(Ord["b"], LinkMaxSize + 1),
    Rep(Ord["b"], LinkMaxSize - 5) \o <<Ord["&"]>>,
    Rep(Ord["b"], LinkMaxSize - 4) \o <<Ord["&"]>> }

Pubkeys ==
  { HexEncode(KeyA), ToUpper(HexEncode(KeyA)), HexEncode(KeyB),
    RepSeq(<<Ord["0"], Ord["g"]>>, PubkeyMaxSize),
    RepSeq(<<Ord["0"], Ord["a"]>>, PubkeyMaxSize - 1) }

SignatureKinds == {"sanitized", "raw", "upper", "otherkey", "othermsg", "nothex", "short"}

\* the key a pubkey field stands for (KeyA when the field does not decode)
KeyOf(pubkey) ==
  IF HexDecodeOk(pubkey) /\ Len(pubkey) = PubkeyMaxSize * 2 THEN HexDecode(pubkey) ELSE KeyA

SignatureOfKind(kind, body, link, pubkey) ==
  LET key == KeyOf(pubkey)
      other == IF key = KeyA THEN KeyB ELSE KeyA
  IN  CASE kind = "sanitized" -> ClientSignature(key, Sanitize(body), Sanitize(link))
        [] kind = "raw" -> ClientSignature(key, body, link)
        [] kind = "upper" -> ToUpper(ClientSignature(key, Sanitize(body), Sanitize(link)))
        [] kind = "otherkey" ->
             HexEncode(Ed25519Sign(other, key \o Sanitize(body) \o Sanitize(link)))
        [] kind = "othermsg" -> ClientSignature(key, <<Ord["x"]>>, <<>>)
        [] kind = "nothex" -> RepSeq(<<Ord["0"], Ord["g"]>>, SignatureMaxSize)
        [] kind = "short" -> RepSeq(<<Ord["0"], Ord["a"]>>, SignatureMaxSize - 1)

\* the candidates validateStatusUpdate is applied to
ValidationInputs ==
  { Candidate(0, 0, b, l, p, SignatureOfKind(k, b, l, p)) :
      b \in Bodies, l \in Links, p \in Pubkeys, k \in SignatureKinds }

\* var update StatusUpdate
ZeroUpdate == Candidate(0, 0, <<>>, <<>>, <<>>, <<>>)

\* a request body: text json.Decode fails on, or the JSON object of a candidate
Undecodable == [decodes |-> FALSE, update |-> ZeroUpdate]
Json(u) == [decodes |-> TRUE, update |-> u]

LongBody == Rep(Ord["a"], BodyMaxSize) \o TagX

\* the request bodies sent to POST /status
Requests ==
  { Undecodable,
    Json(Candidate(0, 0, <<Ord["a"]>>, <<>>, HexEncode(KeyA),
                   ClientSignature(KeyA, <<Ord["a"]>>, <<>>))),
    Json(Candidate(7, 9, <<Ord["a"]>>, <<Ord["b"]>>, HexEncode(KeyB),
                   ClientSignature(KeyB, <<Ord["a"]>>, <<Ord["b"]>>))),
    Json(Candidate(0, 0, <<Ord["a"]>>, <<>>, HexEncode(KeyA),
                   ClientSignature(KeyB, <<Ord["a"]>>, <<>>))),
    Json(Candidate(0, 0, LongBody, <<>>, HexEncode(KeyA),
                   ClientSignature(KeyA, Sanitize(LongBody), <<>>))) }

(***************************************************************************)
(* State                                                                   *)
(***************************************************************************)
VARIABLES
  now,                \* the wall clock, in units of StatsRefreshInterval
  limTokens,          \* limiter.tokens, in 1/UnitsPerSecond of a token
  limLast,            \* limiter.last
  pc,                 \* where each ingestion request is in createStatusUpdate
  update,             \* createStatusUpdate's local StatusUpdate
  reg,                \* the counter value a pending ++ has loaded
  code,               \* the status code written to the response (0: none yet)
  message,            \* the error message written to the response
  handleErrorCalls,   \* how many times each request has called handleError
  status_updates,     \* table status_updates, in rowid order
  sqlite_sequence,    \* the largest rowid AUTOINCREMENT has given out
  statistics,         \* table statistics, in rowid order
  successfulRequests,
  failedRequests,
  tickerC,            \* ticker.C holds a tick (a channel of capacity one)
  ctxDone,            \* the context of printLiveStats is cancelled
  apc,                \* where printLiveStats is
  stats,              \* printLiveStats' local Statistics
  vin,                \* the candidate given to validateStatusUpdate
  vres,               \* what validateStatusUpdate returned for it
  gateLog,            \* the arrivals of a serial client: instant, payload, gate decision
  rpath,              \* the route of the read request being served
  rpubkey,            \* its {pubkey} path parameter
  rpc,                \* where the read request being served is in its handler
  rcode,              \* the status code written to its response (0: none yet)
  rmessage,           \* the error message written to its response
  rpayload,           \* the updates or the statistics encoded in its response
  rreg,               \* the value of failedRequests its pending ++ has loaded
  reads,              \* how many read requests have arrived
  tupdates,           \* the updates a top-prolific list is computed from
  tlists              \* the lists getTopProlificPubkeys returned for them

vars ==
  <<now, limTokens, limLast, pc, update, reg, code, message, handleErrorCalls, status_updates,
    sqlite_sequence, statistics, successfulRequests, failedRequests, tickerC,
    ctxDone, apc, stats, vin, vres, gateLog, rpath, rpubkey, rpc, rcode, rmessage, rpayload, rreg, reads,
    tupdates, tlists>>

limiterVars == <<limTokens, limLast>>
dbVars == <<status_updates, sqlite_sequence, statistics>>
counterVars == <<successfulRequests, failedRequests>>
aggVars == <<tickerC, ctxDone, apc, stats>>
reqVars == <<pc, update, reg, code, message, handleErrorCalls>>
valVars == <<vin, vres>>
logVars == <<gateLog>>
readVars == <<rpath, rpubkey, rpc, rcode, rmessage, rpayload, rreg, reads>>
topVars == <<tupdates, tlists>>

Reqs == 1..NumReqs

\* Statistics{}
ZeroStats ==
  [ID |-> 0, Timestamp |-> 0, TotalPosts |-> 0, UniquePubkeys |-> 0, SuccessfulRequests |-> 0,
   FailedRequests |-> 0, TotalRequests |-> 0,
   BodyMaxSize |-> 0, LinkMaxSize |-> 0, PubkeyMaxSize |-> 0, SignatureMaxSize |-> 0,
   TopProlificPubkeys |-> <<>>,
   AveragePostsPerPubkey |-> [num |-> 0, den |-> 1],
   MostRecentPostTimestamp |-> 0, OldestPostTimestamp |-> 0,
   RateLimitRequestsPerSecond |-> 0]

StatusOK == 200
StatusBadRequest == 400
StatusTooManyRequests == 429
StatusInternalServerError == 500

\* the limiter, the counters and the handlers when main starts
InitRun ==
  /\ now = 0
  /\ limTokens = LimiterBurst * UnitsPerSecond
  /\ limLast = 0
  /\ pc = [r \in Reqs |-> "start"]
  /\ update = [r \in Reqs |-> ZeroUpdate]
  /\ reg = [r \in Reqs |-> 0]
  /\ code = [r \in Reqs |-> 0]
  /\ message = [r \in Reqs |-> ""]
  /\ handleErrorCalls = [r \in Reqs |-> 0]
  /\ successfulRequests = 0
  /\ failedRequests = 0
  /\ tickerC = FALSE
  /\ ctxDone = FALSE
  /\ apc = "select"
  /\ stats = ZeroStats
  /\ gateLog = <<>>
  /\ rpath = ""
  /\ rpubkey = <<>>
  /\ rpc = "idle"
  /\ rcode = 0
  /\ rmessage = ""
  /\ rpayload = <<>>
  /\ rreg = 0
  /\ reads = 0

\* a new database file: initDB creates the tables empty
InitSystem ==
  /\ InitRun
  /\ status_updates = <<>>
  /\ sqlite_sequence = 0
  /\ statistics = <<>>

\* getTopProlificPubkeys has not been given anything
TopIdle == tupdates = <<>> /\ tlists = <<>>

Init ==
  /\ InitSystem
  /\ TopIdle
  /\ vin = ZeroUpdate
  /\ vres = NoError

(***************************************************************************)
(* golang.org/x/time/rate: Limiter.Allow at the instant t                  *)
(***************************************************************************)
\* mutant: the bucket is never refilled
LimiterAdvanceNoRefill(tokens, last, t) == tokens

\* Limiter.advance: the tokens the bucket holds at t
LimiterAdvance(tokens, last, t) ==
  LET elapsed == IF t < last THEN 0 ELSE t - last
      filled == tokens + elapsed * LimiterRate
  IN  IF filled > LimiterBurst * UnitsPerSecond THEN LimiterBurst * UnitsPerSecond ELSE filled

\* reserveN(t, 1, 0).ok
LimiterAllows(tokens, last, t) == LimiterAdvance(tokens, last, t) - UnitsPerSecond >= 0

\* mutant: a denied request restarts the refill period
LimiterReserveRestartsOnDeny(tokens, last, t) ==
  IF LimiterAllows(tokens, last, t)
  THEN [ok |-> TRUE, tokens |-> LimiterAdvance(tokens, last, t) - UnitsPerSecond, last |-> t]
  ELSE [ok |-> FALSE, tokens |-> tokens, last |-> t]

\* mutant: every request finds a token, as the first request of a key would with a bucket per key
LimiterReserveNeverDenies(tokens, last, t) ==
  [ok |-> TRUE, tokens |-> tokens, last |-> last]

\* Limiter.Allow: reserveN takes the token and sets last when it allows the
\* request, and leaves the limiter as it was when it does not
LimiterReserve(tokens, last, t) ==
  IF LimiterAllows(tokens, last, t)
  THEN [ok |-> TRUE, tokens |-> LimiterAdvance(tokens, last, t) - UnitsPerSecond, last |-> t]
  ELSE [ok |-> FALSE, tokens |-> tokens, last |-> last]

(***************************************************************************)
(* POST /status: createStatusUpdate (api.go)                               *)
(***************************************************************************)
\* handleError(w, msg, status) is called and the handler returns after it; the
\* local update is dead from here on
Reject(r, msg, status) ==
  /\ pc' = [pc EXCEPT ![r] = "handleError_load"]
  /\ handleErrorCalls' = [handleErrorCalls EXCEPT ![r] = @ + 1]
  /\ code' = [code EXCEPT ![r] = status]
  /\ message' = [message EXCEPT ![r] = msg]
  /\ update' = [update EXCEPT ![r] = ZeroUpdate]

\* what validateStatusUpdate returns for each request body that decodes
RequestVerdict ==
  [body \in {b \in Requests : b.decodes} |-> validateStatusUpdate(body.update)]

\* mutant: the body is decoded before the limiter is asked
ReceiveOfDecodeFirst(r, body) ==
  /\ pc[r] = "start"
  /\ IF ~body.decodes
     THEN /\ Reject(r, "Invalid request payload", StatusBadRequest)
          /\ UNCHANGED limiterVars
     ELSE LET res == LimiterReserve(limTokens, limLast, now)
          IN  /\ limTokens' = res.tokens
              /\ limLast' = res.last
              /\ IF ~res.ok
                 THEN Reject(r, "Rate limit exceeded", StatusTooManyRequests)
                 ELSE IF RequestVerdict[body] # NoError
                 THEN Reject(r, RequestVerdict[body], StatusBadRequest)
                 ELSE /\ update' = [update EXCEPT ![r] = body.update]
                      /\ pc' = [pc EXCEPT ![r] = "timestamp"]
                      /\ UNCHANGED <<code, message, handleErrorCalls>>
  /\ UNCHANGED <<now, reg, dbVars, counterVars, aggVars, valVars, topVars, readVars>>

\* limiter.Wait(ctx) in place of limiter.Allow(): the handler sleeps until the
\* bucket holds a token
ReceiveOfWaiting(r, body) ==
  /\ pc[r] = "start"
  /\ LimiterAllows(limTokens, limLast, now)
  /\ LET res == LimiterReserve(limTokens, limLast, now)
     IN  /\ limTokens' = res.tokens
         /\ limLast' = res.last
         /\ IF ~body.decodes
            THEN Reject(r, "Invalid request payload", StatusBadRequest)
            ELSE IF RequestVerdict[body] # NoError
            THEN Reject(r, RequestVerdict[body], StatusBadRequest)
            ELSE /\ update' = [update EXCEPT ![r] = body.update]
                 /\ pc' = [pc EXCEPT ![r] = "timestamp"]
                 /\ UNCHANGED <<code, message, handleErrorCalls>>
  /\ UNCHANGED <<now, reg, dbVars, counterVars, aggVars, valVars, topVars, readVars>>

\* a handler that gives the token back when it rejects the request after the gate
ReceiveOfRefunding(r, body) ==
  /\ pc[r] = "start"
  /\ LET res == LimiterReserve(limTokens, limLast, now)
     IN  IF ~res.ok
         THEN /\ Reject(r, "Rate limit exceeded", StatusTooManyRequests)
              /\ UNCHANGED limiterVars
         ELSE IF ~body.decodes
         THEN /\ Reject(r, "Invalid request payload", StatusBadRequest)
              /\ UNCHANGED limiterVars
         ELSE IF RequestVerdict[body] # NoError
         THEN /\ Reject(r, RequestVerdict[body], StatusBadRequest)
              /\ UNCHANGED limiterVars
         ELSE /\ limTokens' = res.tokens
              /\ limLast' = res.last
              /\ update' = [update EXCEPT ![r] = body.update]
              /\ pc' = [pc EXCEPT ![r] = "timestamp"]
              /\ UNCHANGED <<code, message, handleErrorCalls>>
  /\ UNCHANGED <<now, reg, dbVars, counterVars, aggVars, valVars, topVars, readVars>>

\* limiter.Allow(), json Decode and validateStatusUpdate, for a request
\* carrying body
ReceiveOf(r, body) ==
  /\ pc[r] = "start"
  /\ LET res == LimiterReserve(limTokens, limLast, now)
     IN  /\ limTokens' = res.tokens
         /\ limLast' = res.last
         /\ IF ~res.ok
            THEN Reject(r, "Rate limit exceeded", StatusTooManyRequests)
            ELSE IF ~body.decodes
            THEN Reject(r, "Invalid request payload", StatusBadRequest)
            ELSE IF RequestVerdict[body] # NoError
            THEN Reject(r, RequestVerdict[body], StatusBadRequest)
            ELSE /\ update' = [update EXCEPT ![r] = body.update]
                 /\ pc' = [pc EXCEPT ![r] = "timestamp"]
                 /\ UNCHANGED <<code, message, handleErrorCalls>>
  /\ UNCHANGED <<now, reg, dbVars, counterVars, aggVars, valVars, topVars, readVars>>

Receive(r) ==
  /\ \E body \in Requests : ReceiveOf(r, body)
  /\ UNCHANGED logVars

\* time.Now().UnixNano() at the instant t of the run, in clock units
UnixNano(t) == ClockStart + t

\* time.Now().Unix() at the instant t of the run: whole seconds
Unix(t) == (ClockStart + t) \div UnitsPerSecond

\* mutant: a timestamp sent by the client is kept
StampUnlessSent(r) ==
  /\ pc[r] = "timestamp"
  /\ update' = [update EXCEPT ![r].Timestamp =
                  IF update[r].Timestamp # 0 THEN update[r].Timestamp ELSE UnixNano(now)]
  /\ pc' = [pc EXCEPT ![r] = "addStatusUpdate"]
  /\ UNCHANGED <<now, limiterVars, reg, code, message, handleErrorCalls, dbVars,
                 counterVars, aggVars, valVars, topVars, logVars, readVars>>

\* update.Timestamp = time.Now().UnixNano()
Stamp(r) ==
  /\ pc[r] = "timestamp"
  /\ update' = [update EXCEPT ![r].Timestamp = UnixNano(now)]
  /\ pc' = [pc EXCEPT ![r] = "addStatusUpdate"]
  /\ UNCHANGED <<now, limiterVars, reg, code, message, handleErrorCalls, dbVars,
                 counterVars, aggVars, valVars, topVars, logVars, readVars>>

\* mutant: an absent link is stored as a placeholder
InsertedRowPlaceholderLink(u, id) ==
  [id |-> id, timestamp |-> u.Timestamp, body |-> u.Body,
   link |-> IF u.Link = <<>> THEN <<Ord["0"]>> ELSE u.Link,
   pubkey |-> u.Pubkey, signature |-> u.Signature]

\* the row INSERT INTO status_updates stores for update u
InsertedRow(u, id) ==
  [id |-> id, timestamp |-> u.Timestamp, body |-> u.Body, link |-> u.Link,
   pubkey |-> u.Pubkey, signature |-> u.Signature]

\* mutant: the largest rowid given out is handed out again
NextRowidReused(seq) == IF seq = 0 THEN 1 ELSE seq

\* id INTEGER PRIMARY KEY AUTOINCREMENT
NextRowid(seq) == seq + 1

\* the CHECK constraints of status_updates
RowConstraints(row) ==
  /\ Len(row.pubkey) = PubkeyMaxSize * 2
  /\ Len(row.signature) = SignatureMaxSize * 2

\* mutant: the error is returned after the row has been stored
addStatusUpdatePartial(r) ==
  /\ pc[r] = "addStatusUpdate"
  /\ \E execOk \in BOOLEAN :
       LET id == NextRowid(sqlite_sequence)
           row == InsertedRow(update[r], id)
       IN  /\ status_updates' = Append(status_updates, row)
           /\ sqlite_sequence' = id
           /\ IF execOk /\ RowConstraints(row)
              THEN /\ update' = [update EXCEPT ![r].ID = id]
                   /\ pc' = [pc EXCEPT ![r] = "successful_load"]
                   /\ UNCHANGED <<code, message, handleErrorCalls>>
              ELSE Reject(r, "Error adding status update", StatusInternalServerError)
  /\ UNCHANGED <<now, limiterVars, reg, statistics, counterVars, aggVars, valVars, topVars, logVars, readVars>>

\* an INSERT OR REPLACE keyed by pubkey: the new row takes the place of the
\* author's earlier rows
addStatusUpdateReplacing(r) ==
  /\ pc[r] = "addStatusUpdate"
  /\ \E execOk \in BOOLEAN :
       LET id == NextRowid(sqlite_sequence)
           row == InsertedRow(update[r], id)
       IN  IF execOk /\ RowConstraints(row)
           THEN /\ status_updates' =
                     Append(SelectSeq(status_updates, LAMBDA old : old.pubkey # row.pubkey), row)
                /\ sqlite_sequence' = id
                /\ update' = [update EXCEPT ![r].ID = id]
                /\ pc' = [pc EXCEPT ![r] = "successful_load"]
                /\ UNCHANGED <<code, message, handleErrorCalls>>
           ELSE /\ Reject(r, "Error adding status update", StatusInternalServerError)
                /\ UNCHANGED <<status_updates, sqlite_sequence>>
  /\ UNCHANGED <<now, limiterVars, reg, statistics, counterVars, aggVars, valVars, topVars, logVars, readVars>>

\* mutant: an INSERT OR IGNORE under a UNIQUE signature column: a post that is
\* already stored is answered as stored and not stored again
addStatusUpdateIgnoringCopies(r) ==
  /\ pc[r] = "addStatusUpdate"
  /\ \E execOk \in BOOLEAN :
       LET id == NextRowid(sqlite_sequence)
           row == InsertedRow(update[r], id)
       IN  IF execOk /\ RowConstraints(row)
           THEN /\ IF \E i \in 1..Len(status_updates) : status_updates[i].signature = row.signature
                   THEN UNCHANGED <<status_updates, sqlite_sequence, update>>
                   ELSE /\ status_updates' = Append(status_updates, row)
                        /\ sqlite_sequence' = id
                        /\ update' = [update EXCEPT ![r].ID = id]
                /\ pc' = [pc EXCEPT ![r] = "successful_load"]
                /\ UNCHANGED <<code, message, handleErrorCalls>>
           ELSE /\ Reject(r, "Error adding status update", StatusInternalServerError)
                /\ UNCHANGED <<status_updates, sqlite_sequence>>
  /\ UNCHANGED <<now, limiterVars, reg, statistics, counterVars, aggVars, valVars, topVars, logVars, readVars>>

\* addStatusUpdate (database.go): db.Exec either stores the row or fails
addStatusUpdate(r) ==
  /\ pc[r] = "addStatusUpdate"
  /\ \E execOk \in BOOLEAN :
       LET id == NextRowid(sqlite_sequence)
           row == InsertedRow(update[r], id)
       IN  IF execOk /\ RowConstraints(row)
           THEN /\ status_updates' = Append(status_updates, row)
                /\ sqlite_sequence' = id
                /\ update' = [update EXCEPT ![r].ID = id]
                /\ pc' = [pc EXCEPT ![r] = "successful_load"]
                /\ UNCHANGED <<code, message, handleErrorCalls>>
           ELSE /\ Reject(r, "Error adding status update", StatusInternalServerError)
                /\ UNCHANGED <<status_updates, sqlite_sequence>>
  /\ UNCHANGED <<now, limiterVars, reg, statistics, counterVars, aggVars, valVars, topVars, logVars, readVars>>

\* successfulRequests++ is a load and a store, with no lock around them
SuccessLoad(r) ==
  /\ pc[r] = "successful_load"
  /\ reg' = [reg EXCEPT ![r] = successfulRequests]
  /\ pc' = [pc EXCEPT ![r] = "successful_store"]
  /\ UNCHANGED <<now, limiterVars, update, code, message, handleErrorCalls, dbVars,
                 counterVars, aggVars, valVars, topVars, logVars, readVars>>

\* the store of successfulRequests++, then WriteHeader(200) and Encode(update)
SuccessStore(r) ==
  /\ pc[r] = "successful_store"
  /\ successfulRequests' = reg[r] + 1
  /\ reg' = [reg EXCEPT ![r] = 0]
  /\ code' = [code EXCEPT ![r] = StatusOK]
  /\ pc' = [pc EXCEPT ![r] = "done"]
  /\ UNCHANGED <<now, limiterVars, update, message, handleErrorCalls, dbVars,
                 failedRequests, aggVars, valVars, topVars, logVars, readVars>>

\* handleError: failedRequests++ is a load and a store, with no lock around them
HandleErrorLoad(r) ==
  /\ pc[r] = "handleError_load"
  /\ reg' = [reg EXCEPT ![r] = failedRequests]
  /\ pc' = [pc EXCEPT ![r] = "handleError_store"]
  /\ UNCHANGED <<now, limiterVars, update, code, message, handleErrorCalls, dbVars,
                 counterVars, aggVars, valVars, topVars, logVars, readVars>>

\* the store of failedRequests++, then http.Error and log.Printf
HandleErrorStore(r) ==
  /\ pc[r] = "handleError_store"
  /\ failedRequests' = reg[r] + 1
  /\ reg' = [reg EXCEPT ![r] = 0]
  /\ pc' = [pc EXCEPT ![r] = "done"]
  /\ UNCHANGED <<now, limiterVars, update, code, message, handleErrorCalls, dbVars,
                 successfulRequests, aggVars, valVars, topVars, logVars, readVars>>

(***************************************************************************)
(* database.go: the queries                                                *)
(***************************************************************************)
\* the row ORDER BY timestamp DESC puts first: the scan of
\* idx_status_updates_timestamp backwards yields equal timestamps by rowid
NewestRow(rows) ==
  CHOOSE x \in rows : \A y \in rows :
    \/ x.timestamp > y.timestamp
    \/ x.timestamp = y.timestamp /\ x.id >= y.id

RECURSIVE OrderByTimestampDesc(_)
OrderByTimestampDesc(rows) ==
  IF rows = {} THEN <<>>
  ELSE LET x == NewestRow(rows) IN <<x>> \o OrderByTimestampDesc(rows \ {x})

Rows(table) == {table[i] : i \in 1..Len(table)}

\* SELECT * FROM status_updates ORDER BY timestamp DESC
getAllStatusUpdatesFromDB == OrderByTimestampDesc(Rows(status_updates))

(***************************************************************************)
(* stats.go: getStatistics                                                 *)
(***************************************************************************)
\* pubkeyPostCounts[string(update.Pubkey)] = 1: the count set, not incremented
PostCountsAssigned(allUpdates) == [k \in {allUpdates[i].pubkey : i \in 1..Len(allUpdates)} |-> 1]

\* pubkeyPostCounts[string(update.Pubkey)]++ over allUpdates
PostCounts(allUpdates) ==
  [k \in {allUpdates[i].pubkey : i \in 1..Len(allUpdates)} |->
     Cardinality({i \in 1..Len(allUpdates) : allUpdates[i].pubkey = k})]

\* float64(a) / float64(b): a ratio, NaN when both are 0
FloatDiv(a, b) == [num |-> a, den |-> b]
IsNaN(f) == f.num = 0 /\ f.den = 0

\* the sequences that hold every element of S once
Orderings(S) ==
  {f \in [1..Cardinality(S) -> S] : \A i, j \in 1..Cardinality(S) : f[i] = f[j] => i = j}

\* the keys of a map in the order of its buckets
RECURSIVE BucketOrder(_)
BucketOrder(keys) ==
  IF keys = {} THEN <<>>
  ELSE LET k == CHOOSE x \in keys : TRUE IN <<k>> \o BucketOrder(keys \ {k})

Rotation(seq, start) ==
  [i \in 1..Len(seq) |-> seq[((start + i - 2) % Len(seq)) + 1]]

\* for k, v := range pubkeyPostCounts: the language leaves the order open and the
\* runtime starts each range at a random place.  Every order is enumerated for a
\* map of at most MaxShuffled keys, every starting place of one bucket order for
\* a larger map.
RangeOrders(m) ==
  IF Cardinality(DOMAIN m) <= MaxShuffled
  THEN Orderings(DOMAIN m)
  ELSE {Rotation(BucketOrder(DOMAIN m), start) : start \in 1..Cardinality(DOMAIN m)}

\* ss = append(ss, kv{k, v}) for the keys in the order the range yields them
RangedSlice(m, order) == [i \in 1..Len(order) |-> [Key |-> order[i], Value |-> m[order[i]]]]

\* less of sort.Slice: ss[i].Value > ss[j].Value
Less(a, b) == a.Value > b.Value

\* the inner loop of the insertion sort: x moves left while it is less than the
\* element before it
RECURSIVE InsertLeft(_, _)
InsertLeft(sorted, x) ==
  IF Len(sorted) > 0 /\ Less(x, sorted[Len(sorted)])
  THEN Append(InsertLeft(SubSeq(sorted, 1, Len(sorted) - 1), x), sorted[Len(sorted)])
  ELSE Append(sorted, x)

\* sort.Slice: a slice of at most 12 elements is sorted by insertion
RECURSIVE SortSlice(_)
SortSlice(ss) ==
  IF Len(ss) <= 1 THEN ss
  ELSE InsertLeft(SortSlice(SubSeq(ss, 1, Len(ss) - 1)), ss[Len(ss)])

\* a cut that keeps one entry more
TruncateOneMore(ss) ==
  SubSeq(ss, 1, IF Len(ss) < TopLimit + 1 THEN Len(ss) ELSE TopLimit + 1)

\* for i, kv := range ss { if i >= 10 { break } ... }
Truncate(ss) == SubSeq(ss, 1, IF Len(ss) < TopLimit THEN Len(ss) ELSE TopLimit)

\* getTopProlificPubkeys, given the slice the range over the map filled
getTopProlificPubkeys(ss) ==
  LET top == Truncate(SortSlice(ss))
  IN  [i \in 1..Len(top) |-> [Pubkey |-> top[i].Key, Count |-> top[i].Value]]

\* getStatistics, given the updates the query returned and the order in which the
\* range over pubkeyPostCounts yields its keys
getStatistics(successful, failed, allUpdates, order) ==
  LET pubkeyPostCounts == PostCounts(allUpdates)
      uniquePubkeys == Cardinality(DOMAIN pubkeyPostCounts)
  IN  [ID |-> 0,
       Timestamp |-> 0,
       TotalPosts |-> Len(allUpdates),
       UniquePubkeys |-> uniquePubkeys,
       SuccessfulRequests |-> successful,
       FailedRequests |-> failed,
       TotalRequests |-> successful + failed,
       BodyMaxSize |-> BodyMaxSize,
       LinkMaxSize |-> LinkMaxSize,
       PubkeyMaxSize |-> PubkeyMaxSize,
       SignatureMaxSize |-> SignatureMaxSize,
       TopProlificPubkeys |-> getTopProlificPubkeys(RangedSlice(pubkeyPostCounts, order)),
       AveragePostsPerPubkey |-> FloatDiv(Len(allUpdates), uniquePubkeys),
       MostRecentPostTimestamp |->
         IF Len(allUpdates) > 0 THEN allUpdates[1].timestamp ELSE 0,
       OldestPostTimestamp |->
         IF Len(allUpdates) > 0 THEN allUpdates[Len(allUpdates)].timestamp ELSE 0,
       RateLimitRequestsPerSecond |-> LimiterRate]

(***************************************************************************)
(* The clock, the ticker and printLiveStats                                *)
(***************************************************************************)
\* StatsRefreshInterval passes: the ticker sends a tick, dropped when ticker.C is full
Tick ==
  /\ now < MaxTime
  /\ now' = now + 1
  /\ tickerC' = TRUE
  /\ UNCHANGED <<limiterVars, reqVars, dbVars, counterVars, ctxDone, apc, stats, valVars, topVars, logVars, readVars>>

\* cancel()
Cancel ==
  /\ ~ctxDone
  /\ ctxDone' = TRUE
  /\ UNCHANGED <<now, limiterVars, reqVars, dbVars, counterVars, tickerC, apc, stats, valVars, topVars, logVars, readVars>>

\* case <-ctx.Done(): continue, the loop goes on
LiveStatsContinueOnDone ==
  /\ apc = "select"
  /\ ctxDone
  /\ UNCHANGED vars

\* case <-ctx.Done(): return
LiveStatsReturn ==
  /\ apc = "select"
  /\ ctxDone
  /\ apc' = "returned"
  /\ UNCHANGED <<now, limiterVars, reqVars, dbVars, counterVars, tickerC, ctxDone, stats, valVars, topVars, logVars, readVars>>

\* case <-ticker.C: the arguments of getStatistics are evaluated
LiveStatsTick ==
  /\ apc = "select"
  /\ tickerC
  /\ tickerC' = FALSE
  /\ stats' = [ZeroStats EXCEPT !.SuccessfulRequests = successfulRequests,
                                !.FailedRequests = failedRequests]
  /\ apc' = "getStatistics"
  /\ UNCHANGED <<now, limiterVars, reqVars, dbVars, counterVars, ctxDone, valVars, topVars, logVars, readVars>>

\* getStatistics: the query of all updates (it may fail) and the snapshot
LiveStatsCompute ==
  /\ apc = "getStatistics"
  /\ \E queryOk \in BOOLEAN :
       IF queryOk
       THEN /\ \E order \in RangeOrders(PostCounts(getAllStatusUpdatesFromDB)) :
                 stats' = getStatistics(stats.SuccessfulRequests, stats.FailedRequests,
                                        getAllStatusUpdatesFromDB, order)
            /\ apc' = "updateStatisticsInDB"
       ELSE /\ stats' = ZeroStats
            /\ apc' = "select"
  /\ UNCHANGED <<now, limiterVars, reqVars, dbVars, counterVars, tickerC, ctxDone, valVars, topVars, logVars, readVars>>

\* the row INSERT INTO statistics stores; time.Now().Unix() is in whole seconds
StatisticsRow(s, id, t) ==
  [id |-> id, timestamp |-> Unix(t),
   total_posts |-> s.TotalPosts, unique_pubkeys |-> s.UniquePubkeys,
   successful_requests |-> s.SuccessfulRequests, failed_requests |-> s.FailedRequests,
   total_requests |-> s.TotalRequests,
   average_posts_per_pubkey |-> s.AveragePostsPerPubkey,
   most_recent_post_timestamp |-> s.MostRecentPostTimestamp,
   oldest_post_timestamp |-> s.OldestPostTimestamp,
   rate_limit_requests_per_second |-> s.RateLimitRequestsPerSecond]

\* average_posts_per_pubkey REAL NOT NULL: SQLite binds a NaN as NULL
StatisticsConstraints(row) == ~IsNaN(row.average_posts_per_pubkey)

\* updateStatisticsInDB (it may fail), then the snapshot is printed
LiveStatsPersist ==
  /\ apc = "updateStatisticsInDB"
  /\ \E execOk \in BOOLEAN :
       LET row == StatisticsRow(stats, Len(statistics) + 1, now)
       IN  IF execOk /\ StatisticsConstraints(row)
           THEN statistics' = Append(statistics, row)
           ELSE UNCHANGED statistics
  /\ stats' = ZeroStats
  /\ apc' = "select"
  /\ UNCHANGED <<now, limiterVars, reqVars, status_updates, sqlite_sequence,
                 counterVars, tickerC, ctxDone, valVars, topVars, logVars, readVars>>

(***************************************************************************)
(* The read handlers (api.go): GET /status/{pubkey}, GET /status and       *)
(* GET /stats, one read request at a time                                  *)
(***************************************************************************)
\* SELECT * FROM status_updates WHERE pubkey = ? ORDER BY timestamp DESC
getStatusUpdatesByPubkeyFromDB(pubkey) ==
  OrderByTimestampDesc({row \in Rows(status_updates) : row.pubkey = pubkey})

\* SELECT * FROM statistics ORDER BY timestamp DESC LIMIT 1: the rows that may
\* come first, those with the greatest timestamp
LatestStatistics ==
  {row \in Rows(statistics) : \A other \in Rows(statistics) : row.timestamp >= other.timestamp}

\* db.Get(&stats, ...): each column is copied to the field with its db tag; the
\* fields with no column (the size limits, the top-prolific list) keep their
\* zero value
ScanStatistics(row) ==
  [ID |-> row.id, Timestamp |-> row.timestamp,
   TotalPosts |-> row.total_posts, UniquePubkeys |-> row.unique_pubkeys,
   SuccessfulRequests |-> row.successful_requests, FailedRequests |-> row.failed_requests,
   TotalRequests |-> row.total_requests,
   BodyMaxSize |-> 0, LinkMaxSize |-> 0, PubkeyMaxSize |-> 0, SignatureMaxSize |-> 0,
   TopProlificPubkeys |-> <<>>,
   AveragePostsPerPubkey |-> row.average_posts_per_pubkey,
   MostRecentPostTimestamp |-> row.most_recent_post_timestamp,
   OldestPostTimestamp |-> row.oldest_post_timestamp,
   RateLimitRequestsPerSecond |-> row.rate_limit_requests_per_second]

\* the {pubkey} path parameters of the read-by-key requests
PathKeys == Pubkeys

\* handleError(w, msg, status) is called by a read handler, which then returns
ReadReject(msg, status) ==
  /\ rpc' = "handleError_load"
  /\ rcode' = status
  /\ rmessage' = msg
  /\ rpayload' = <<>>

\* WriteHeader(200) and Encode(payload)
ReadRespond(payload) ==
  /\ rpc' = "done"
  /\ rcode' = StatusOK
  /\ rmessage' = ""
  /\ rpayload' = payload

getStatusUpdatesByPubkey ==
  /\ rpc = "idle"
  /\ reads < MaxReads
  /\ reads' = reads + 1
  /\ rpath' = "/status/{pubkey}"
  /\ \E pubkeyStr \in PathKeys, queryOk \in BOOLEAN :
       /\ rpubkey' = pubkeyStr
       /\ IF Len(pubkeyStr) # PubkeyMaxSize * 2
          THEN ReadReject("Invalid public key", StatusBadRequest)
          ELSE IF ~queryOk
          THEN ReadReject("Error retrieving status updates", StatusInternalServerError)
          ELSE ReadRespond(getStatusUpdatesByPubkeyFromDB(pubkeyStr))
  /\ UNCHANGED <<now, limiterVars, reqVars, dbVars, counterVars, aggVars, valVars, topVars,
                 logVars, rreg>>

getAllStatusUpdates ==
  /\ rpc = "idle"
  /\ reads < MaxReads
  /\ reads' = reads + 1
  /\ rpath' = "/status"
  /\ \E queryOk \in BOOLEAN :
       IF ~queryOk
       THEN ReadReject("Error retrieving status updates", StatusInternalServerError)
       ELSE ReadRespond(getAllStatusUpdatesFromDB)
  /\ UNCHANGED <<now, limiterVars, reqVars, dbVars, counterVars, aggVars, valVars, topVars,
                 logVars, rpubkey, rreg>>

\* db.Get fails when the query fails and when the table has no row
getStatisticsHandler ==
  /\ rpc = "idle"
  /\ reads < MaxReads
  /\ reads' = reads + 1
  /\ rpath' = "/stats"
  /\ \E queryOk \in BOOLEAN :
       IF ~queryOk \/ statistics = <<>>
       THEN ReadReject("Error retrieving statistics", StatusInternalServerError)
       ELSE \E row \in LatestStatistics : ReadRespond(ScanStatistics(row))
  /\ UNCHANGED <<now, limiterVars, reqVars, dbVars, counterVars, aggVars, valVars, topVars,
                 logVars, rpubkey, rreg>>

\* handleError in a read handler: the load of failedRequests++
ReadErrorLoad ==
  /\ rpc = "handleError_load"
  /\ rreg' = failedRequests
  /\ rpc' = "handleError_store"
  /\ UNCHANGED <<now, limiterVars, reqVars, dbVars, counterVars, aggVars, valVars, topVars,
                 logVars, rpath, rpubkey, rcode, rmessage, rpayload, reads>>

\* the store of failedRequests++, then http.Error and log.Printf
ReadErrorStore ==
  /\ rpc = "handleError_store"
  /\ failedRequests' = rreg + 1
  /\ rreg' = 0
  /\ rpc' = "done"
  /\ UNCHANGED <<now, limiterVars, reqVars, dbVars, successfulRequests, aggVars, valVars, topVars,
                 logVars, rpath, rpubkey, rcode, rmessage, rpayload, reads>>

\* the read handler has returned: the next read request is served
ReadNext ==
  /\ rpc = "done"
  /\ rpc' = "idle"
  /\ rpath' = ""
  /\ rpubkey' = <<>>
  /\ rcode' = 0
  /\ rmessage' = ""
  /\ rpayload' = <<>>
  /\ UNCHANGED <<now, limiterVars, reqVars, dbVars, counterVars, aggVars, valVars, topVars,
                 logVars, rreg, reads>>

readHandlers ==
  \/ getStatusUpdatesByPubkey
  \/ getAllStatusUpdates
  \/ getStatisticsHandler
  \/ ReadErrorLoad
  \/ ReadErrorStore
  \/ ReadNext

(***************************************************************************)
(* The service                                                             *)
(***************************************************************************)
createStatusUpdate(r) ==
  \/ Receive(r)
  \/ Stamp(r)
  \/ addStatusUpdate(r)
  \/ SuccessLoad(r)
  \/ SuccessStore(r)
  \/ HandleErrorLoad(r)
  \/ HandleErrorStore(r)

printLiveStats ==
  \/ LiveStatsTick
  \/ LiveStatsCompute
  \/ LiveStatsPersist
  \/ LiveStatsReturn

Next ==
  \/ \E r \in Reqs : createStatusUpdate(r)
  \/ printLiveStats
  \/ Tick
  \/ Cancel

Spec == Init /\ [][Next]_vars

\* The ingestion requests and the clock alone.  printLiveStats writes only its
\* own locals, ticker.C and table statistics, none of which createStatusUpdate
\* reads, so what holds of the requests here holds of them in Spec.
NextIngest ==
  \/ \E r \in Reqs : createStatusUpdate(r)
  \/ Tick

SpecIngest == Init /\ [][NextIngest]_vars

\* The ingestion requests and the clock, each handler's goroutine being
\* scheduled as long as it can take a step.
SpecIngestLive ==
  /\ Init
  /\ [][NextIngest]_vars
  /\ \A r \in Reqs : WF_vars(createStatusUpdate(r))

\* The ingestion requests, the read requests and the clock: the handlers the
\* router runs concurrently, one goroutine per request.
NextServe ==
  \/ \E r \in Reqs : createStatusUpdate(r)
  \/ readHandlers
  \/ Tick

SpecServe == Init /\ [][NextServe]_vars

(***************************************************************************)
(* A client sending its requests one after another on one connection, the  *)
(* next when the previous one has been answered, with a record of each     *)
(* arrival: the instant, the payload with its key and what limiter.Allow   *)
(* decided.                                                                *)
(***************************************************************************)
\* a request arrives and createStatusUpdate runs up to validateStatusUpdate
Arrive(r) ==
  /\ Len(gateLog) < MaxServed
  /\ \E body \in Requests :
       /\ ReceiveOf(r, body)
       /\ gateLog' = Append(gateLog,
                            [at |-> now, body |-> body, pubkey |-> body.update.Pubkey,
                             passed |-> code'[r] # StatusTooManyRequests])

\* the handler has returned: the connection serves the next request
ServeNext(r) ==
  /\ pc[r] = "done"
  /\ Len(gateLog) < MaxServed
  /\ pc' = [pc EXCEPT ![r] = "start"]
  /\ update' = [update EXCEPT ![r] = ZeroUpdate]
  /\ code' = [code EXCEPT ![r] = 0]
  /\ message' = [message EXCEPT ![r] = ""]
  /\ handleErrorCalls' = [handleErrorCalls EXCEPT ![r] = 0]
  /\ UNCHANGED <<now, limiterVars, reg, dbVars, counterVars, aggVars, valVars, topVars, logVars, readVars>>

\* the connection the client uses
Conn == CHOOSE r \in Reqs : \A q \in Reqs : r <= q

NextGate ==
  \/ Arrive(Conn)
  \/ Stamp(Conn)
  \/ addStatusUpdate(Conn)
  \/ SuccessLoad(Conn)
  \/ SuccessStore(Conn)
  \/ HandleErrorLoad(Conn)
  \/ HandleErrorStore(Conn)
  \/ ServeNext(Conn)
  \/ Tick

SpecGate == Init /\ [][NextGate]_vars

(***************************************************************************)
(* The whole service started on the database file an earlier run left      *)
(* (initDB creates the tables only if they do not exist): one ingestion    *)
(* request, the read handlers and printLiveStats, one operation at a time. *)
(***************************************************************************)
\* records stored by an earlier run
EarlierRow(id, body, link, key) ==
  [id |-> id, timestamp |-> ClockStart - 3 + id, body |-> body, link |-> link,
   pubkey |-> HexEncode(key), signature |-> ClientSignature(key, body, link)]

\* the tables of status updates the service may find when it starts
StoredBefore ==
  { <<>>,
    <<EarlierRow(1, <<Ord["a"]>>, <<>>, KeyA)>>,
    <<EarlierRow(1, <<Ord["a"]>>, <<>>, KeyA), EarlierRow(2, <<Ord["b"]>>, <<Ord["b"]>>, KeyB)>> }

InitStore ==
  /\ InitRun
  /\ status_updates \in StoredBefore
  /\ sqlite_sequence = Len(status_updates)
  /\ statistics = <<>>
  /\ TopIdle
  /\ vin = ZeroUpdate
  /\ vres = NoError

\* no ingestion request, no read request, no recomputation is under way
IngestIdle == pc[Conn] \in {"start", "done"}
ReadIdle == rpc = "idle"
LiveStatsIdle == apc \in {"select", "returned"}

\* the operations of the service, one at a time
NextStore ==
  \/ ReadIdle /\ LiveStatsIdle /\ createStatusUpdate(Conn)
  \/ IngestIdle /\ LiveStatsIdle /\ readHandlers
  \/ IngestIdle /\ ReadIdle /\ printLiveStats
  \/ Tick
  \/ Cancel

SpecStore == InitStore /\ [][NextStore]_vars

(***************************************************************************)
(* printLiveStats alone with its ticker and the cancellation of its        *)
(* context, as TestPrintLiveStats runs it.  The goroutine is scheduled     *)
(* while it can step, and a select with several ready cases chooses among  *)
(* them at random, so that a case ready again and again is taken.          *)
(***************************************************************************)
NextLiveStats ==
  \/ printLiveStats
  \/ Tick
  \/ Cancel

SpecLiveStats ==
  /\ InitStore
  /\ [][NextLiveStats]_vars
  /\ WF_vars(LiveStatsCompute)
  /\ WF_vars(LiveStatsPersist)
  /\ SF_vars(LiveStatsReturn)

(***************************************************************************)
(* validateStatusUpdate applied to one candidate                           *)
(***************************************************************************)
InitValidate ==
  /\ InitSystem
  /\ TopIdle
  /\ vin \in ValidationInputs
  /\ vres = "pending"

Validate ==
  /\ vres = "pending"
  /\ vres' = validateStatusUpdate(vin)
  /\ UNCHANGED <<now, limiterVars, reqVars, dbVars, counterVars, aggVars, vin, topVars, logVars, readVars>>

NextValidate == Validate

SpecValidate == InitValidate /\ [][NextValidate]_vars

(***************************************************************************)
(* getTopProlificPubkeys applied to the updates of a table, as             *)
(* getStatistics applies it, several times over the same table             *)
(***************************************************************************)
\* n authors post once each, one after another, then every stride-th of them
\* posts once more
PostedBy(n, stride) ==
  LET once == [i \in 1..n |-> i]
  IN  once \o SelectSeq(once, LAMBDA k : k % stride = 0)

\* the row of the i-th update of a table, posted by author
PostedRow(i, author) == [id |-> i, timestamp |-> ClockStart + i, pubkey |-> author]

\* the tables the list is computed from
TopInputs ==
  { [i \in 1..Len(PostedBy(n, stride)) |-> PostedRow(i, PostedBy(n, stride)[i])] :
      n \in 0..MaxKeys, stride \in 1..(MaxKeys + 1) }

InitTop ==
  /\ InitSystem
  /\ vin = ZeroUpdate
  /\ vres = NoError
  /\ tupdates \in TopInputs
  /\ tlists = <<>>

\* getStatistics lines 37-48: the query, the per-key counts and the list
TopProlific ==
  /\ Len(tlists) < MaxRecomputations
  /\ LET allUpdates == OrderByTimestampDesc(Rows(tupdates))
         pubkeyPostCounts == PostCounts(allUpdates)
     IN  \E order \in RangeOrders(pubkeyPostCounts) :
           tlists' = Append(tlists, getTopProlificPubkeys(RangedSlice(pubkeyPostCounts, order)))
  /\ UNCHANGED <<now, limiterVars, reqVars, dbVars, counterVars, aggVars, valVars, tupdates,
                 logVars, readVars>>

NextTop == TopProlific

SpecTop == InitTop /\ [][NextTop]_vars

(***************************************************************************)
(* Properties of ingestion                                                 *)
(***************************************************************************)
Admitted(r) == pc[r] = "done" /\ code[r] = StatusOK
Rejected(r) == pc[r] = "done" /\ code[r] # StatusOK
AllDone == \A r \in Reqs : pc[r] = "done"

\* the requests whose row has been stored
Inserted == {r \in Reqs : pc[r] \in {"successful_load", "successful_store"} \/ Admitted(r)}

StoredIds == {status_updates[i].id : i \in 1..Len(status_updates)}

\* C1: under every interleaving of concurrent ingestion requests the store
\* holds exactly one record per request whose insert has been done, the IDs are
\* exactly 1..n with none repeated or skipped, and each of those requests
\* holds its own ID; with all N requests admitted, n = N.
C1_IdsExactlyOneToN ==
  LET n == Len(status_updates)
  IN  /\ n = Cardinality(Inserted)
      /\ StoredIds = 1..n
      /\ {update[r].ID : r \in Inserted} = 1..n
      /\ ((\A r \in Reqs : Admitted(r)) => n = NumReqs /\ StoredIds = 1..NumReqs)

\* every request of the run has been admitted
C1_Witness == \A r \in Reqs : Admitted(r)

\* C2: a snapshot computed by getStatistics never reports a success counter
\* that differs from the number of records it counted.
C2_SnapshotCountsAgree ==
  apc = "updateStatisticsInDB" => stats.SuccessfulRequests = stats.TotalPosts

\* C3: once all requests have terminated no increment has been lost:
\* successfulRequests is the number admitted and failedRequests the number
\* rejected, so that their sum is the number of requests.
C3_NoIncrementLost ==
  AllDone =>
    /\ successfulRequests = Cardinality({r \in Reqs : Admitted(r)})
    /\ failedRequests = Cardinality({r \in Reqs : Rejected(r)})
    /\ successfulRequests + failedRequests = NumReqs

RejectionCodes == {StatusTooManyRequests, StatusBadRequest, StatusInternalServerError}

\* C4: createStatusUpdate calls handleError exactly once on every rejection
\* path (429, 400, 500) and never on the admitted path, and every rejection
\* raises failedRequests by exactly one: the counter equals the number of
\* requests whose handleError has completed.
C4_EachRejectionCountedOnce ==
  /\ \A r \in Reqs :
       /\ pc[r] \in {"start", "timestamp", "addStatusUpdate", "successful_load",
                     "successful_store"} => handleErrorCalls[r] = 0
       /\ pc[r] \in {"handleError_load", "handleError_store"} =>
            handleErrorCalls[r] = 1 /\ code[r] \in RejectionCodes
       /\ pc[r] = "done" =>
            /\ code[r] \in RejectionCodes \cup {StatusOK}
            /\ handleErrorCalls[r] = IF code[r] = StatusOK THEN 0 ELSE 1
  /\ failedRequests = Cardinality({r \in Reqs : Rejected(r)})

\* request r takes a step along a rejection path
RejectionStep(r) ==
  /\ pc'[r] # pc[r]
  /\ \/ pc'[r] \in {"handleError_load", "handleError_store"}
     \/ pc'[r] = "done" /\ code'[r] # StatusOK

\* C5: no step a request takes on a rejection path changes the stored
\* collection (and so the per-key counts derived from it), the ID sequence or
\* successfulRequests.
C5_RejectionChangesNothing ==
  [][\A r \in Reqs :
       RejectionStep(r) => UNCHANGED <<status_updates, sqlite_sequence, successfulRequests>>]_vars

\* a storage failure has been answered while the store holds a record
C5_Witness ==
  \E r \in Reqs :
    /\ Rejected(r) /\ code[r] = StatusInternalServerError
    /\ Len(status_updates) >= 1
    /\ successfulRequests >= 1

\* the signature of a stored record verifies over its own pubkey, body and link
SignedAsStored(u) ==
  LET key == HexDecode(u.pubkey)
  IN  Ed25519Verify(key, key \o u.body \o u.link, HexDecode(u.signature))

\* C7: the body and link of every stored record, and of every record
\* returned to a client, are the bytes the signature was verified over.
C7_StoredBytesAreSigned ==
  /\ \A i \in 1..Len(status_updates) : SignedAsStored(status_updates[i])
  /\ \A r \in Reqs : Admitted(r) =>
       SignedAsStored([pubkey |-> update[r].Pubkey, body |-> update[r].Body,
                       link |-> update[r].Link, signature |-> update[r].Signature])

\* C8: every stored record is within the bounds of the data model.
C8_StoredWithinBounds ==
  \A i \in 1..Len(status_updates) :
    LET row == status_updates[i]
    IN  /\ row.body # <<>>
        /\ Len(row.body) <= BodyMaxSize
        /\ Len(row.link) <= LinkMaxSize
        /\ Len(row.pubkey) = 2 * PubkeyMaxSize /\ HexDecodeOk(row.pubkey)
        /\ Len(row.signature) = 2 * SignatureMaxSize /\ HexDecodeOk(row.signature)

(***************************************************************************)
(* Properties of validateStatusUpdate                                      *)
(***************************************************************************)
Decodes(u) == HexDecodeOk(u.Pubkey) /\ HexDecodeOk(u.Signature)

\* the signature of u is the Ed25519 signature by its pubkey over
\* pubkey || sanitized body || sanitized link
SignatureValid(u) ==
  LET key == HexDecode(u.Pubkey)
  IN  Ed25519Verify(key, key \o Sanitize(u.Body) \o Sanitize(u.Link), HexDecode(u.Signature))

AcceptCondition(u) ==
  /\ Sanitize(u.Body) # <<>>
  /\ Len(Sanitize(u.Body)) <= 256
  /\ Sanitize(u.Link) = <<>> \/ Len(Sanitize(u.Link)) <= 256
  /\ Decodes(u)
  /\ Len(HexDecode(u.Pubkey)) = 32
  /\ Len(HexDecode(u.Signature)) = 64
  /\ SignatureValid(u)

\* the key, the message and the signature validateStatusUpdate verifies
VerifiedTriple(u) ==
  IF Decodes(u)
  THEN <<HexDecode(u.Pubkey),
         HexDecode(u.Pubkey) \o Sanitize(u.Body) \o Sanitize(u.Link),
         HexDecode(u.Signature)>>
  ELSE <<>>

\* u with one of its fields replaced
Variants(u) ==
  {[u EXCEPT !.Body = b] : b \in Bodies}
    \cup {[u EXCEPT !.Link = l] : l \in Links}
    \cup {[u EXCEPT !.Pubkey = p] : p \in Pubkeys}
    \cup {[u EXCEPT !.Signature = SignatureOfKind(k, u.Body, u.Link, u.Pubkey)] :
            k \in SignatureKinds}
    \cup {[u EXCEPT !.Signature = SignatureOfKind("sanitized", b, u.Link, u.Pubkey)] :
            b \in Bodies}

\* C6: validateStatusUpdate accepts a candidate exactly when its sanitized
\* body is non-empty and at most 256 bytes, its sanitized link is empty or at
\* most 256 bytes, pubkey and signature decode to 32 and 64 bytes and the
\* signature is valid over pubkey || body || link; and an accepted candidate
\* with its key, message or signature changed is rejected.
C6_AcceptIffValid ==
  vres # "pending" =>
    /\ (vres = NoError) <=> AcceptCondition(vin)
    /\ vres = NoError =>
         \A v \in Variants(vin) :
           VerifiedTriple(v) # VerifiedTriple(vin) => validateStatusUpdate(v) # NoError

\* an accepted candidate whose sanitized body and link differ from the raw ones
C6_Witness ==
  /\ vres = NoError
  /\ Sanitize(vin.Body) # vin.Body
  /\ vin.Link # <<>>
  /\ \E v \in Variants(vin) : VerifiedTriple(v) # VerifiedTriple(vin)

\* the checks in the order of the claim: check i fails on u
CheckFails(i, u) ==
  CASE i = 1 -> Sanitize(u.Body) = <<>>
    [] i = 2 -> Len(Sanitize(u.Body)) > 256
    [] i = 3 -> Sanitize(u.Link) # <<>> /\ Len(Sanitize(u.Link)) > 256
    [] i = 4 -> Len(u.Pubkey) # 64
    [] i = 5 -> Len(u.Signature) # 128
    [] i = 6 -> ~HexDecodeOk(u.Pubkey)
    [] i = 7 -> ~HexDecodeOk(u.Signature)
    [] i = 8 -> ~(Decodes(u) /\ SignatureValid(u))

CheckReason ==
  <<ErrBodyEmpty, ErrBodySize, ErrLinkSize, ErrPubkeyLen, ErrSigLen, ErrPubkeyFormat,
    ErrSigFormat, ErrUnauthorized>>

FailingChecks(u) == {i \in 1..Len(CheckReason) : CheckFails(i, u)}

\* C9: the rejection reason is that of the earliest failing check in the
\* order body empty, body size, link size, pubkey length, signature length,
\* pubkey hex, signature hex, signature verification.
C9_FirstFailingCheckWins ==
  vres # "pending" =>
    vres = IF FailingChecks(vin) = {} THEN NoError
           ELSE CheckReason[SetMin(FailingChecks(vin))]

\* a candidate failing the body size check and three later checks
C9_Witness ==
  /\ vres = ErrBodySize
  /\ {3, 4, 7} \subseteq FailingChecks(vin)

WellSigned(u) ==
  /\ Len(u.Pubkey) = 64 /\ Len(u.Signature) = 128
  /\ Decodes(u)
  /\ SignatureValid(u)

\* C10: for a correctly signed candidate, a sanitized body of exactly 256
\* bytes is accepted and one of 257 bytes is rejected for its size, and
\* likewise a sanitized link of 256 and of 257 bytes.
C10_LimitsInclusive ==
  (vres # "pending" /\ WellSigned(vin)) =>
    LET b == Len(Sanitize(vin.Body))
        l == Len(Sanitize(vin.Link))
    IN  /\ (b = 256 /\ l <= 256) => vres = NoError
        /\ b = 257 => vres = ErrBodySize
        /\ (b >= 1 /\ b <= 256 /\ l = 256) => vres = NoError
        /\ (b >= 1 /\ b <= 256 /\ l = 257) => vres = ErrLinkSize

\* an accepted candidate with body and link both at the limit after sanitization
C10_Witness ==
  /\ vres = NoError
  /\ Len(Sanitize(vin.Body)) = 256 /\ Len(vin.Body) # 256
  /\ Len(Sanitize(vin.Link)) = 256

\* the rejections for size, length and hex format
FormatErrors ==
  {ErrBodyEmpty, ErrBodySize, ErrLinkSize, ErrPubkeyLen, ErrSigLen, ErrPubkeyFormat,
   ErrSigFormat}

\* C11: validateStatusUpdate returns the authorization rejection exactly for
\* a candidate that fails no size, length or hex check and whose signature
\* does not verify; a candidate failing one of those checks gets a format
\* rejection, and no format rejection has the text of the authorization one.
C11_UnauthorizedOnlyAfterFormat ==
  /\ ErrUnauthorized \notin FormatErrors
  /\ NoError \notin FormatErrors \cup {ErrUnauthorized}
  /\ vres # "pending" =>
       /\ (vres = ErrUnauthorized) <=>
            (FailingChecks(vin) \cap (1..7) = {} /\ ~SignatureValid(vin))
       /\ (FailingChecks(vin) \cap (1..7) # {}) <=> (vres \in FormatErrors)

\* a well-formed candidate signed by another key has been refused
C11_Witness ==
  /\ vres = ErrUnauthorized
  /\ FailingChecks(vin) = {8}
  /\ Sanitize(vin.Body) # vin.Body

(***************************************************************************)
(* Properties of ingestion, continued                                      *)
(***************************************************************************)
\* the requests whose candidate validateStatusUpdate has accepted
PastValidation ==
  {r \in Reqs : pc[r] \in {"timestamp", "addStatusUpdate"}} \cup Inserted

\* the stored record of request r, whose insert has been done
RowOf(r) ==
  CHOOSE row \in Rows(status_updates) : row.id = update[r].ID

\* the fields of an update that the client supplies and the signature covers
Content(u) == <<u.Body, u.Link, u.Pubkey, u.Signature>>

\* for each request content: the message built from it without a link is
\* pubkey || body with no further byte, and its signature verifies over that
VerifiesAsPubkeyBody ==
  [c \in {Content(b.update) : b \in Requests} |->
     LET key == HexDecode(c[3])
         body == Sanitize(c[1])
     IN  /\ dataToVerify(key, body, Sanitize(<<>>)) = key \o body
         /\ Ed25519Verify(key, key \o body, HexDecode(c[4]))]

\* C12: for an accepted candidate without link the message verified is
\* pubkey || body with no further byte, and the record stored for it and
\* returned to the client has an empty link.
C12_NoLinkNoLinkBytes ==
  \A r \in PastValidation :
    update[r].Link = <<>> =>
      /\ VerifiesAsPubkeyBody[Content(update[r])]
      /\ r \in Inserted =>
           /\ \E row \in Rows(status_updates) : row.id = update[r].ID
           /\ RowOf(r).link = <<>>

\* a request without link has been admitted and its record stored
C12_Witness ==
  \E r \in Reqs :
    /\ Admitted(r)
    /\ update[r].Link = <<>>
    /\ \E row \in Rows(status_updates) : row.id = update[r].ID /\ row.body = update[r].Body

(***************************************************************************)
(* Properties of the admission gate                                        *)
(***************************************************************************)
SetMax(S) == CHOOSE x \in S : \A y \in S : x >= y

\* the arrivals before the i-th that passed the gate
PassedBefore(i) == {k \in 1..(i - 1) : gateLog[k].passed}

\* C13: the first request finds a full bucket and passes the gate; a request
\* arriving less than one refill period (one second) after a request that
\* passed, and so one arriving immediately after it, is denied; a request
\* arriving one full refill period or more after the last request that passed
\* passes again.
C13_GateSequence ==
  \A i \in 1..Len(gateLog) :
    LET earlier == PassedBefore(i)
    IN  /\ earlier = {} => gateLog[i].passed
        /\ \A k \in earlier :
             gateLog[i].at - gateLog[k].at < UnitsPerSecond => ~gateLog[i].passed
        /\ (earlier # {} /\ gateLog[i].at - gateLog[SetMax(earlier)].at >= UnitsPerSecond)
             => gateLog[i].passed

\* a request passed, the next arrived at the same instant and was denied, and
\* a third arrived one second after the first and passed
C13_Witness ==
  /\ Len(gateLog) = 3
  /\ gateLog[1].passed /\ ~gateLog[2].passed /\ gateLog[3].passed
  /\ gateLog[2].at = gateLog[1].at
  /\ gateLog[3].at = gateLog[1].at + UnitsPerSecond

\* the gate denies the request that arrives in this step
DenialStep ==
  /\ Len(gateLog') = Len(gateLog) + 1
  /\ ~gateLog'[Len(gateLog')].passed

\* the earliest instant at which the bucket holds a whole token
NextAdmission(tokens, last) ==
  IF tokens >= UnitsPerSecond THEN last
  ELSE last + (UnitsPerSecond - tokens) \div LimiterRate

\* C14: a denied request does not consume a token: the step in which the
\* gate denies a request leaves the token level and the instant of the last
\* refill unchanged, and with them the instant at which the next request
\* will be admitted.
C14_DenialLeavesBucket ==
  [][DenialStep =>
       /\ UNCHANGED <<limTokens, limLast>>
       /\ NextAdmission(limTokens', limLast') = NextAdmission(limTokens, limLast)]_vars

\* a request was denied half a second after one that passed, and the next
\* request, one second after the one that passed, passed
C14_Witness ==
  /\ Len(gateLog) = 3
  /\ gateLog[1].passed /\ ~gateLog[2].passed /\ gateLog[3].passed
  /\ gateLog[2].at > gateLog[1].at
  /\ gateLog[3].at = gateLog[1].at + UnitsPerSecond

\* whether the bucket holds a token for the i-th arrival, from the instants
\* and decisions of the arrivals before it and from nothing else
GateOpenAt(i) ==
  \/ PassedBefore(i) = {}
  \/ gateLog[i].at - gateLog[SetMax(PassedBefore(i))].at >= UnitsPerSecond

\* C15: there is one bucket for all submitters: after a request has passed
\* the gate, a request of another key arriving before the refill is denied;
\* the decision is the same whatever the key of the request; and of two
\* requests that reach a full bucket at the same instant exactly one passes.
C15_OneBucketForAllKeys ==
  /\ \A i, j \in 1..Len(gateLog) :
       ( /\ i < j
         /\ gateLog[i].passed
         /\ gateLog[j].pubkey # gateLog[i].pubkey
         /\ gateLog[j].at - gateLog[i].at < UnitsPerSecond ) => ~gateLog[j].passed
  /\ \A i \in 1..Len(gateLog) : gateLog[i].passed <=> GateOpenAt(i)
  /\ \A i \in 1..(Len(gateLog) - 1) :
       (GateOpenAt(i) /\ gateLog[i + 1].at = gateLog[i].at) =>
         (gateLog[i].passed /\ ~gateLog[i + 1].passed)

\* a request of key A took the token and a request of key B, arriving at the
\* same instant, was denied; after the refill a request of key B passed
C15_Witness ==
  /\ Len(gateLog) = 3
  /\ gateLog[1].pubkey = HexEncode(KeyA) /\ gateLog[1].passed
  /\ gateLog[2].pubkey = HexEncode(KeyB) /\ ~gateLog[2].passed
  /\ gateLog[2].at = gateLog[1].at
  /\ gateLog[3].pubkey = HexEncode(KeyB) /\ gateLog[3].passed

(***************************************************************************)
(* Properties of the outcome of a request                                  *)
(***************************************************************************)
\* the latest arrival of the serial client
Latest == gateLog[Len(gateLog)]

\* C16: the answer to a request is decided by the first failing step in the
\* order gate, decode, validate, persist: a request the gate denies is
\* answered 429 whatever its payload; one that passes the gate with an
\* undecodable payload 400; one that decodes and fails validation 400 with
\* the reason of the validation; one that is valid 500 when the insert fails
\* and nothing is stored, and 200, with its record stored, otherwise.
C16_FirstFailingStepDecides ==
  (gateLog # <<>> /\ pc[Conn] = "done") =>
    LET body == Latest.body
        valid == body.decodes /\ RequestVerdict[body] = NoError
    IN  /\ ~GateOpenAt(Len(gateLog)) =>
             code[Conn] = StatusTooManyRequests /\ message[Conn] = "Rate limit exceeded"
        /\ (GateOpenAt(Len(gateLog)) /\ ~body.decodes) =>
             code[Conn] = StatusBadRequest /\ message[Conn] = "Invalid request payload"
        /\ (GateOpenAt(Len(gateLog)) /\ body.decodes /\ ~valid) =>
             /\ code[Conn] = StatusBadRequest
             /\ message[Conn] = RequestVerdict[body]
        /\ (GateOpenAt(Len(gateLog)) /\ valid) =>
             \/ /\ code[Conn] = StatusInternalServerError
                /\ message[Conn] = "Error adding status update"
                /\ Len(status_updates) = successfulRequests
             \/ /\ code[Conn] = StatusOK
                /\ Len(status_updates) = successfulRequests
                /\ update[Conn].ID = status_updates[Len(status_updates)].id
        /\ code[Conn] = StatusOK => (GateOpenAt(Len(gateLog)) /\ valid)

\* an undecodable request passed the gate and was refused, a valid request
\* arriving at the same instant was denied by the gate, and a valid request
\* arriving after the refill has been answered 200
C16_Witness ==
  /\ Len(gateLog) = 3 /\ pc[Conn] = "done"
  /\ gateLog[1].passed /\ ~gateLog[1].body.decodes
  /\ ~gateLog[2].passed /\ gateLog[2].body.decodes /\ gateLog[2].at = gateLog[1].at
  /\ RequestVerdict[gateLog[2].body] = NoError
  /\ gateLog[3].passed /\ code[Conn] = StatusOK
  /\ failedRequests = 2 /\ successfulRequests = 1

\* the rows stored under pubkey k
RowsOfKey(k) == {row \in Rows(status_updates) : row.pubkey = k}

\* what an admission does to the store: one record per request whose insert
\* has been done, and for an answered one the record returned is the record
\* stored, with the fields of the candidate and an ID and a timestamp given by
\* the server
AdmissionStoresOneRecord ==
  /\ Len(status_updates) = Cardinality(Inserted)
  /\ Cardinality(Rows(status_updates)) = Len(status_updates)
  /\ \A r \in Reqs : Admitted(r) =>
       /\ update[r].ID >= 1 /\ update[r].Timestamp >= ClockStart
       /\ Cardinality({row \in Rows(status_updates) : row.id = update[r].ID}) = 1
       /\ RowOf(r) = [id |-> update[r].ID, timestamp |-> update[r].Timestamp,
                      body |-> update[r].Body, link |-> update[r].Link,
                      pubkey |-> update[r].Pubkey, signature |-> update[r].Signature]
  /\ \A k \in {HexEncode(KeyA), HexEncode(KeyB)} :
       Cardinality(RowsOfKey(k)) = Cardinality({r \in Inserted : update[r].Pubkey = k})

\* C17: an admitted request stores exactly one new record with the
\* candidate's body, link, pubkey and signature and a server-assigned ID and
\* timestamp, which the response returns; it raises the post count of its key
\* by one and of no other key; it raises successfulRequests by exactly one,
\* so that the counter is the number of requests admitted; and it leaves
\* failedRequests alone.
C17_AdmissionEffects ==
  /\ AdmissionStoresOneRecord
  /\ successfulRequests = Cardinality({r \in Reqs : Admitted(r)})
  /\ failedRequests <= Cardinality({r \in Reqs : Rejected(r)})

\* the request bodies whose JSON carries an id and a timestamp
SendsIdAndTimestamp ==
  {b \in Requests : b.decodes /\ b.update.ID # 0 /\ b.update.Timestamp # 0}

\* C18: the id and the timestamp of a stored record are the server's,
\* whatever the request carried in those fields: the i-th record stored has
\* id i and a timestamp read from the server's clock during the run, and the
\* record returned for a request is the stored one.
C18_ServerAssignsIdAndTimestamp ==
  /\ \A i \in 1..Len(status_updates) :
       /\ status_updates[i].id = i
       /\ status_updates[i].timestamp \in UnixNano(0)..UnixNano(now)
  /\ \A r \in Inserted :
       /\ update[r].ID \in 1..Len(status_updates)
       /\ update[r].Timestamp = status_updates[update[r].ID].timestamp
       /\ Content(update[r]) = Content([Body |-> status_updates[update[r].ID].body,
                                        Link |-> status_updates[update[r].ID].link,
                                        Pubkey |-> status_updates[update[r].ID].pubkey,
                                        Signature |-> status_updates[update[r].ID].signature])

\* a request that carried an id and a timestamp of its own has been admitted
\* and its record carries neither
C18_Witness ==
  \E r \in Reqs : \E b \in SendsIdAndTimestamp :
    /\ Admitted(r)
    /\ Content(update[r]) = Content(b.update)
    /\ update[r].ID # b.update.ID /\ RowOf(r).id # b.update.ID
    /\ update[r].Timestamp # b.update.Timestamp /\ RowOf(r).timestamp # b.update.Timestamp

\* C19: ids and timestamps are both assigned in insertion order: of any two
\* stored records the one with the smaller id has a timestamp that is not
\* later.
C19_TimestampsFollowIds ==
  \A a, b \in Rows(status_updates) : a.id < b.id => a.timestamp <= b.timestamp

\* C20: the stored collection is append-only: whatever the service does (an
\* ingestion step, a read, a recomputation of the statistics, a tick), every
\* record of the table is still there, at its place and with the same id,
\* timestamp, body, link, pubkey and signature
StoredRecordsKept ==
  /\ Len(status_updates') >= Len(status_updates)
  /\ \A i \in 1..Len(status_updates) : status_updates'[i] = status_updates[i]

C20_AppendOnly == [][StoredRecordsKept]_vars

\* an author's second record is stored after the first, the statistics have been
\* recomputed and persisted, and a read has been answered
C20_Witness ==
  /\ Len(status_updates) = 3
  /\ status_updates[3].pubkey = status_updates[1].pubkey
  /\ status_updates \notin StoredBefore
  /\ statistics # <<>>
  /\ rpc = "done"
  /\ rcode = StatusOK

(***************************************************************************)
(* Properties of the statistics                                            *)
(***************************************************************************)
\* printLiveStats has computed a snapshot in this step
SnapshotStep == apc = "getStatistics" /\ apc' = "updateStatisticsInDB"

RECURSIVE SumOfCounts(_)
SumOfCounts(list) ==
  IF list = <<>> THEN 0 ELSE list[1].Count + SumOfCounts(Tail(list))

StoredKeys == {status_updates[i].pubkey : i \in 1..Len(status_updates)}

\* C21: a snapshot getStatistics computes is derived from the table it reads:
\* total posts is the number of stored records and the sum of the per-key
\* counts, unique keys is the number of distinct submitting keys and the size of
\* the per-key mapping, total requests is successful plus failed, and the
\* average is total posts over unique keys
SnapshotDerived ==
  SnapshotStep =>
    /\ stats'.TotalPosts = Len(status_updates)
    /\ stats'.TotalPosts = SumOfCounts(stats'.TopProlificPubkeys)
    /\ stats'.UniquePubkeys = Cardinality(StoredKeys)
    /\ stats'.UniquePubkeys = Len(stats'.TopProlificPubkeys)
    /\ \A i \in 1..Len(stats'.TopProlificPubkeys) :
         stats'.TopProlificPubkeys[i].Count =
           Cardinality({j \in 1..Len(status_updates) :
                          status_updates[j].pubkey = stats'.TopProlificPubkeys[i].Pubkey})
    /\ stats'.TotalRequests = stats'.SuccessfulRequests + stats'.FailedRequests
    /\ stats'.AveragePostsPerPubkey = FloatDiv(Len(status_updates), Cardinality(StoredKeys))

C21_SnapshotDerivedFromState == [][SnapshotDerived]_vars

\* the snapshot of three updates by two keys: total 3, unique 2, average 3/2
C21_Witness ==
  /\ apc = "updateStatisticsInDB"
  /\ Len(status_updates) = 3
  /\ status_updates[1].pubkey = status_updates[3].pubkey
  /\ status_updates[1].pubkey # status_updates[2].pubkey
  /\ stats.TotalPosts = 3
  /\ stats.UniquePubkeys = 2
  /\ stats.AveragePostsPerPubkey = [num |-> 3, den |-> 2]

\* the float64 value 0
IsZeroFloat(f) == f.num = 0 /\ f.den # 0

\* C22: when no update is stored, the snapshot getStatistics computes has an
\* average posts per key of 0
EmptySnapshotAveragesZero ==
  (SnapshotStep /\ status_updates = <<>>) => IsZeroFloat(stats'.AveragePostsPerPubkey)

C22_EmptyAverageIsZero == [][EmptySnapshotAveragesZero]_vars

\* the stored records with the greatest and the smallest id
GreatestId == CHOOSE x \in Rows(status_updates) : \A y \in Rows(status_updates) : x.id >= y.id
SmallestId == CHOOSE x \in Rows(status_updates) : \A y \in Rows(status_updates) : x.id <= y.id

\* C25: in every snapshot over a non-empty table the most-recent post timestamp
\* is the timestamp of the record with the greatest id, and the oldest post
\* timestamp that of the record with the smallest id
SnapshotTimestampsByInsertion ==
  (SnapshotStep /\ status_updates # <<>>) =>
    /\ stats'.MostRecentPostTimestamp = GreatestId.timestamp
    /\ stats'.OldestPostTimestamp = SmallestId.timestamp

C25_TimestampsOfLastAndFirstInserted == [][SnapshotTimestampsByInsertion]_vars

\* a step of the handler of the read request sent to path
ReadStep(path) == rpc' # rpc /\ (rpath = path \/ rpath' = path)

\* C26: reading the statistics is idempotent: a statistics read answers with
\* the latest persisted snapshot, whatever reads came before, and changes
\* nothing a later snapshot reports, neither the tables nor the request counters
StatisticsReadChangesNothing ==
  ReadStep("/stats") =>
    /\ UNCHANGED <<status_updates, sqlite_sequence, statistics>>
    /\ UNCHANGED <<successfulRequests, failedRequests>>
    /\ (rpc = "idle" /\ rcode' = StatusOK) =>
          rpayload' \in {ScanStatistics(row) : row \in LatestStatistics}

C26_StatisticsReadIdempotent == [][StatisticsReadChangesNothing]_vars

\* a statistics read is answered with a snapshot in this step
StatisticsAnswered == ReadStep("/stats") /\ rpc = "idle" /\ rcode' = StatusOK

\* C27: a statistics read returns the snapshot persisted by the most recent
\* completed recomputation, the last row of table statistics, never an older
\* one, also when several snapshots were persisted within one second
ReadsLastPersisted ==
  StatisticsAnswered => rpayload' = ScanStatistics(statistics[Len(statistics)])

C27_ReadReturnsLastPersisted == [][ReadsLastPersisted]_vars

\* C28: staleness is bounded: once a recomputation that counts an update has
\* been persisted, every statistics read returns a snapshot that counts it, a
\* snapshot with at least the total posts of every persisted snapshot
ReadCountsWhatWasPersisted ==
  StatisticsAnswered =>
    \A row \in Rows(statistics) : rpayload'.TotalPosts >= row.total_posts

C28_StalenessBounded == [][ReadCountsWhatWasPersisted]_vars

\* the row a step has appended to table statistics holds the whole snapshot
\* printLiveStats computed for this tick
WholeSnapshotAppended ==
  LET row == statistics'[Len(statistics')]
  IN  /\ Len(statistics') = Len(statistics) + 1
      /\ \A i \in 1..Len(statistics) : statistics'[i] = statistics[i]
      /\ apc = "updateStatisticsInDB"
      /\ apc' = "select"
      /\ row.total_posts = stats.TotalPosts
      /\ row.unique_pubkeys = stats.UniquePubkeys
      /\ row.successful_requests = stats.SuccessfulRequests
      /\ row.failed_requests = stats.FailedRequests
      /\ row.total_requests = stats.TotalRequests
      /\ row.average_posts_per_pubkey = stats.AveragePostsPerPubkey
      /\ ~IsNaN(row.average_posts_per_pubkey)
      /\ row.most_recent_post_timestamp = stats.MostRecentPostTimestamp
      /\ row.oldest_post_timestamp = stats.OldestPostTimestamp
      /\ row.rate_limit_requests_per_second = stats.RateLimitRequestsPerSecond

StopsCleanly ==
  /\ statistics' # statistics => WholeSnapshotAppended
  /\ apc = "returned" => (apc' = "returned" /\ statistics' = statistics)

\* C30: the aggregator stops cleanly: once its context is cancelled
\* printLiveStats eventually returns, after which it persists nothing, and each
\* tick persists one complete snapshot row or none
C30_AggregatorStopsCleanly ==
  /\ ctxDone ~> (apc = "returned")
  /\ [][StopsCleanly]_vars

\* printLiveStats has returned after persisting a snapshot, with a tick it did
\* not serve left in the ticker
C30_Witness ==
  /\ apc = "returned"
  /\ ctxDone
  /\ statistics # <<>>
  /\ tickerC

\* the statistics read returns the stored fields of the persisted snapshot row
ReturnsStoredFields(snapshot, row) ==
  /\ snapshot.TotalPosts = row.total_posts
  /\ snapshot.UniquePubkeys = row.unique_pubkeys
  /\ snapshot.SuccessfulRequests = row.successful_requests
  /\ snapshot.FailedRequests = row.failed_requests
  /\ snapshot.TotalRequests = row.total_requests
  /\ snapshot.AveragePostsPerPubkey = row.average_posts_per_pubkey
  /\ snapshot.MostRecentPostTimestamp = row.most_recent_post_timestamp
  /\ snapshot.OldestPostTimestamp = row.oldest_post_timestamp
  /\ snapshot.RateLimitRequestsPerSecond = row.rate_limit_requests_per_second

\* the snapshot carries the configured size limits and a top-prolific list over
\* the keys and the posts it counts
CarriesLimitsAndTopList(snapshot) ==
  /\ snapshot.BodyMaxSize = BodyMaxSize
  /\ snapshot.LinkMaxSize = LinkMaxSize
  /\ snapshot.PubkeyMaxSize = PubkeyMaxSize
  /\ snapshot.SignatureMaxSize = SignatureMaxSize
  /\ Len(snapshot.TopProlificPubkeys) =
       IF snapshot.UniquePubkeys < 10 THEN snapshot.UniquePubkeys ELSE 10
  /\ snapshot.UniquePubkeys <= 10 =>
       SumOfCounts(snapshot.TopProlificPubkeys) = snapshot.TotalPosts

\* C29: persisting a snapshot and reading it back is a round trip: the snapshot
\* a statistics read returns has the counts, the average, the timestamps and the
\* rate limit of a persisted snapshot, and carries its top-prolific list and the
\* configured body, link, pubkey and signature size limits
StatisticsRoundTrip ==
  StatisticsAnswered =>
    /\ \E row \in Rows(statistics) : ReturnsStoredFields(rpayload', row)
    /\ CarriesLimitsAndTopList(rpayload')

C29_StatisticsRoundTrip == [][StatisticsRoundTrip]_vars

(***************************************************************************)
(* Properties of getTopProlificPubkeys                                     *)
(***************************************************************************)
\* the keys of the updates the list is computed from, and how many updates each has
RankedKeys == {tupdates[i].pubkey : i \in 1..Len(tupdates)}
PostsOf(k) == Cardinality({i \in 1..Len(tupdates) : tupdates[i].pubkey = k})

ListedKeys(list) == {list[i].Pubkey : i \in 1..Len(list)}

\* C23: getTopProlificPubkeys returns min(10, number of keys) entries, each the
\* key and the count of an entry of the per-key mapping, no key twice, in order
\* of non-increasing count, and no key left out has more posts than a key listed
IsTopList(list) ==
  /\ Len(list) = IF Cardinality(RankedKeys) < 10 THEN Cardinality(RankedKeys) ELSE 10
  /\ \A i \in 1..Len(list) : list[i].Pubkey \in RankedKeys /\ list[i].Count = PostsOf(list[i].Pubkey)
  /\ \A i, j \in 1..Len(list) : list[i].Pubkey = list[j].Pubkey => i = j
  /\ \A i, j \in 1..Len(list) : i < j => list[i].Count >= list[j].Count
  /\ \A out \in RankedKeys \ ListedKeys(list) : \A i \in 1..Len(list) : PostsOf(out) <= list[i].Count

C23_TopListSortedAndCut == \A n \in 1..Len(tlists) : IsTopList(tlists[n])

\* a list of ten of eleven keys, some with more posts than others, and a key
\* with as many posts as the last one listed is left out
C23_Witness ==
  /\ Len(tlists) > 0
  /\ Cardinality(RankedKeys) > 10
  /\ Len(tlists[1]) = 10
  /\ tlists[1][1].Count > tlists[1][10].Count
  /\ \E out \in RankedKeys \ ListedKeys(tlists[1]) : PostsOf(out) = tlists[1][10].Count

\* the place of the first update of key k in the table
FirstSeen(k) == CHOOSE i \in 1..Len(tupdates) :
  /\ tupdates[i].pubkey = k
  /\ \A j \in 1..(i - 1) : tupdates[j].pubkey # k

TiesByFirstAppearance(list) ==
  /\ \A i, j \in 1..Len(list) :
       (i < j /\ list[i].Count = list[j].Count)
         => FirstSeen(list[i].Pubkey) < FirstSeen(list[j].Pubkey)
  /\ \A out \in RankedKeys \ ListedKeys(list) : \A i \in 1..Len(list) :
       PostsOf(out) = list[i].Count => FirstSeen(list[i].Pubkey) < FirstSeen(out)

\* C24: keys with equal post counts are listed in the order of their first
\* update in the table, the earliest first, also across the cut at ten, so that
\* two computations over the same table return the same list
C24_TiesByFirstAppearance ==
  /\ \A n \in 1..Len(tlists) : TiesByFirstAppearance(tlists[n])
  /\ \A n, m \in 1..Len(tlists) : tlists[n] = tlists[m]

(***************************************************************************)
(* Properties of the read handlers                                         *)
(***************************************************************************)
\* a read request arrives and its handler runs up to its response or to the
\* call of handleError
ReadArrives(path) == rpc = "idle" /\ rpath' = path

\* the path parameter is the hex encoding of exactly 32 bytes
IsPubkeyHex(k) == Len(k) = PubkeyMaxSize * 2 /\ HexDecodeOk(k)

\* C31: a read-by-key request whose path parameter is not the hex encoding of
\* exactly 32 bytes is rejected with 400 "Invalid public key"
MalformedKeyRejected ==
  (ReadArrives("/status/{pubkey}") /\ ~IsPubkeyHex(rpubkey')) =>
    /\ rcode' = StatusBadRequest
    /\ rmessage' = "Invalid public key"

C31_MalformedKeyRejected == [][MalformedKeyRejected]_vars

\* a read request is answered 200 in this step
ReadAnswered(path) == ReadArrives(path) /\ rcode' = StatusOK

\* list holds each record of rows once, a record inserted later before every
\* record inserted earlier
NewestFirst(list, rows) ==
  /\ Len(list) = Cardinality(rows)
  /\ {list[i] : i \in 1..Len(list)} = rows
  /\ \A i, j \in 1..Len(list) : i < j => list[i].id > list[j].id

\* C32: read-by-key returns exactly the stored records whose pubkey is the
\* requested key, read-all returns every stored record, and in both lists a
\* record inserted later never comes after one inserted earlier
ReadsReturnNewestFirst ==
  /\ ReadAnswered("/status/{pubkey}") =>
       NewestFirst(rpayload', {row \in Rows(status_updates) : row.pubkey = rpubkey'})
  /\ ReadAnswered("/status") => NewestFirst(rpayload', Rows(status_updates))

C32_ReadsReturnNewestFirst == [][ReadsReturnNewestFirst]_vars

(***************************************************************************)
(* Further properties of ingestion                                         *)
(***************************************************************************)
\* addStatusUpdate returns an error to request r in this step
StorageFails(r) == pc[r] = "addStatusUpdate" /\ pc'[r] = "handleError_load"

\* request r, whose append failed, completes its call of handleError
StorageFailureAnswered(r) ==
  /\ message[r] = "Error adding status update"
  /\ pc[r] = "handleError_store"
  /\ pc'[r] = "done"

\* C33: when storage fails on append the request ends as a storage failure:
\* status 500 with the fixed message, no record added, failedRequests raised
\* by one and successfulRequests unchanged
StorageFailureReported ==
  \A r \in Reqs :
    /\ StorageFails(r) =>
         /\ code'[r] = StatusInternalServerError
         /\ message'[r] = "Error adding status update"
         /\ UNCHANGED <<status_updates, sqlite_sequence>>
    /\ StorageFailureAnswered(r) =>
         /\ code'[r] = StatusInternalServerError
         /\ failedRequests' = failedRequests + 1
         /\ UNCHANGED <<status_updates, sqlite_sequence, successfulRequests>>

C33_StorageFailureReported == [][StorageFailureReported]_vars

\* request r has got its one outcome: admitted with no call of handleError, or
\* rejected with one status and one message from one call of handleError
OneOutcome(r) ==
  \/ /\ code[r] = StatusOK
     /\ message[r] = ""
     /\ handleErrorCalls[r] = 0
  \/ /\ code[r] \in {StatusBadRequest, StatusTooManyRequests, StatusInternalServerError}
     /\ message[r] # ""
     /\ handleErrorCalls[r] = 1

\* whatever the other handlers are doing, a request that has not been answered
\* can take its next step: the limiter answers an arriving request at once and
\* no step waits for another handler
NeverWaits == \A r \in Reqs : pc[r] # "done" => ENABLED createStatusUpdate(r)

\* an answered request stays answered, with the same outcome
OutcomeIsFinal ==
  \A r \in Reqs : pc[r] = "done" =>
    /\ pc'[r] = "done"
    /\ code'[r] = code[r]
    /\ message'[r] = message[r]
    /\ handleErrorCalls'[r] = handleErrorCalls[r]

\* C34: every ingestion request reaches exactly one terminal outcome, admitted
\* or rejected with one reason, without ever waiting: the gate answers at once
\* and no handler blocks on another
C34_EveryRequestAnswered ==
  /\ <>AllDone
  /\ [](\A r \in Reqs : pc[r] = "done" => OneOutcome(r))
  /\ []NeverWaits
  /\ [][OutcomeIsFinal]_vars

\* every request has been answered, one admitted and one denied by the gate
C34_Witness ==
  /\ AllDone
  /\ \E r \in Reqs : code[r] = StatusOK
  /\ \E r \in Reqs : code[r] = StatusTooManyRequests

\* the i-th arrival passed the gate and was rejected by the decoding or by
\* validateStatusUpdate
RejectedAfterGate(i) ==
  /\ gateLog[i].passed
  /\ ~gateLog[i].body.decodes \/ RequestVerdict[gateLog[i].body] # NoError

\* the j-th arrival carries a valid, correctly signed candidate
ValidArrival(j) == gateLog[j].body.decodes /\ RequestVerdict[gateLog[j].body] = NoError

\* C35: a request that passes the gate has consumed the token, also when it is
\* rejected afterwards: a request arriving after it before the bucket has
\* refilled, less than a second later, is denied by the gate, valid or not
C35_RejectionAfterGateCostsToken ==
  \A i, j \in 1..Len(gateLog) :
    (i < j /\ gateLog[i].passed /\ gateLog[j].at - gateLog[i].at < UnitsPerSecond)
      => ~gateLog[j].passed

\* an undecodable or invalid request passed the gate, and the valid request
\* that arrived right after it, at the same instant, was denied
C35_Witness ==
  /\ Len(gateLog) >= 2
  /\ RejectedAfterGate(1)
  /\ ValidArrival(2)
  /\ gateLog[2].at = gateLog[1].at
  /\ ~gateLog[2].passed

\* a step of a read handler, and the step that completes its failedRequests++
ReadHandlerStep == rpc' # rpc

ReadFailureCounted == rpc = "handleError_store" /\ rpc' = "done"

\* C36: no step of a read handler consults or changes the bucket, the stored
\* collection or successfulRequests; a read that succeeds leaves failedRequests
\* unchanged as well, and a read that fails raises failedRequests by exactly
\* one
ReadsOnlyCountFailures ==
  ReadHandlerStep =>
    /\ UNCHANGED <<limiterVars, dbVars, successfulRequests>>
    /\ IF ReadFailureCounted
       THEN failedRequests' = failedRequests + 1
       ELSE failedRequests' = failedRequests
    /\ (rpc = "idle" /\ rcode' # StatusOK) => rpc' = "handleError_load"
    /\ (rpc = "idle" /\ rcode' = StatusOK) => rpc' = "done"

C36_ReadsOnlyCountFailures == [][ReadsOnlyCountFailures]_vars

\* the statistics read answers 500 and goes on to handleError
NoSnapshotAnswer ==
  /\ rcode' = StatusInternalServerError
  /\ rmessage' = "Error retrieving statistics"
  /\ rpc' = "handleError_load"

\* the statistics read answers 200 with one of the persisted snapshots
SnapshotAnswer ==
  /\ rcode' = StatusOK
  /\ rpc' = "done"
  /\ \E row \in Rows(statistics) : rpayload' = ScanStatistics(row)

\* the failedRequests++ of a failed statistics read adds one
StatisticsFailureCounted ==
  (rpath = "/stats" /\ ReadFailureCounted) => failedRequests' = failedRequests + 1

\* C37: while table statistics has no row a statistics read answers 500
\* "Error retrieving statistics" and raises failedRequests by one; once the
\* table has a row, every statistics read answers 200 with a snapshot
StatisticsReadNeedsSnapshot ==
  /\ ReadArrives("/stats") => IF statistics = <<>> THEN NoSnapshotAnswer ELSE SnapshotAnswer
  /\ StatisticsFailureCounted

WithinLimits(u) ==
  /\ Sanitize(u.Body) # <<>>
  /\ ~ExceedsBody(Sanitize(u.Body))
  /\ ~ExceedsLink(Sanitize(u.Link))

\* the same pubkey and signature and the same sanitized bytes body || link
SameSignedBytes(u, v) ==
  /\ u.Pubkey = v.Pubkey
  /\ u.Signature = v.Signature
  /\ Sanitize(u.Body) \o Sanitize(u.Link) = Sanitize(v.Body) \o Sanitize(v.Link)

\* the other candidates that split the bytes of vin differently
OtherSplits ==
  {v \in ValidationInputs :
     /\ v.Pubkey = vin.Pubkey
     /\ v.Signature = vin.Signature
     /\ Sanitize(v.Body) # Sanitize(vin.Body)
     /\ SameSignedBytes(vin, v)
     /\ WithinLimits(v)}

\* C38: the verdict depends on body and link only through their
\* concatenation: a candidate with the same pubkey and signature as the one
\* validated and the same sanitized bytes body || link, both with a non-empty
\* body and within the size limits, gets the same verdict, so a signature
\* accepted for one split of the bytes is accepted for every other split
C38_VerdictDependsOnConcatenation ==
  (vres # "pending" /\ WithinLimits(vin)) =>
     \A v \in OtherSplits : validateStatusUpdate(v) = vres

\* a candidate with a link was accepted, and its signature is accepted for
\* another split of the same bytes into body and link
C38_Witness ==
  /\ vres = NoError
  /\ Sanitize(vin.Link) # <<>>
  /\ \E v \in OtherSplits : validateStatusUpdate(v) = NoError

(***************************************************************************)
(* Properties of repeated submissions                                      *)
(***************************************************************************)
\* the stored records that carry the post of candidate u
CopiesOf(u, table) ==
  {i \in 1..Len(table) :
     /\ table[i].body = u.Body
     /\ table[i].link = u.Link
     /\ table[i].pubkey = u.Pubkey
     /\ table[i].signature = u.Signature}

\* the number of posts of key k in the table
PostCountOf(k, table) ==
  IF k \in DOMAIN PostCounts(table) THEN PostCounts(table)[k] ELSE 0

\* a valid candidate arrives while the bucket holds a token
ValidArrivesWithToken ==
  /\ pc[Conn] = "start"
  /\ Len(gateLog') = Len(gateLog) + 1
  /\ ValidArrival(Len(gateLog))'
  /\ LimiterAllows(limTokens, limLast, now)

\* the insert of the request on the connection succeeds
Stored == pc[Conn] = "addStatusUpdate" /\ pc'[Conn] = "successful_load"

\* C39: ingestion does no deduplication: a valid candidate that arrives with
\* a token available goes on to be stored whatever is stored already, and
\* each insert adds one more record with the candidate's body, link, pubkey
\* and signature under an ID no stored record has, raising the key's post
\* count by one, also when copies of the same candidate are stored already
NoDeduplication ==
  /\ ValidArrivesWithToken => pc'[Conn] = "timestamp"
  /\ Stored =>
       LET u == update[Conn]
           new == status_updates'[Len(status_updates')]
       IN  /\ Len(status_updates') = Len(status_updates) + 1
           /\ CopiesOf(u, status_updates') = CopiesOf(u, status_updates) \cup {Len(status_updates')}
           /\ \A i \in 1..Len(status_updates) :
                 status_updates'[i] = status_updates[i] /\ status_updates[i].id # new.id
           /\ PostCountOf(u.Pubkey, status_updates')
                 = PostCountOf(u.Pubkey, status_updates) + 1

C39_NoDeduplication == [][NoDeduplication]_vars

\* the same candidate was submitted twice and admitted twice: two records
\* with different IDs and the same body, link, pubkey and signature
C39_Witness ==
  /\ pc[Conn] = "done"
  /\ code[Conn] = StatusOK
  /\ successfulRequests = 2
  /\ Len(status_updates) = 2
  /\ status_updates[1].id # status_updates[2].id
  /\ CopiesOf(update[Conn], status_updates) = {1, 2}
  /\ PostCountOf(update[Conn].Pubkey, status_updates) = 2

====
